---------------------------- MODULE Spec2Model ----------------------------
(***************************************************************************)
(* Model of the aimharder-sync sync engine.                                *)
(*                                                                         *)
(*  - the CLI `sync` command (cmd/main.go: runSync, syncToStrava,          *)
(*    syncToGarmin, isWorkoutSynced, recordSync, load/saveSyncHistory)     *)
(*  - the webhook server (package main: handleSync, WebhookServer.runSync, *)
(*    isWorkoutSyncedInHistory, recordSyncInHistory)                       *)
(*  - the Strava client's WaitForUpload and the TCX generator's            *)
(*    GenerateAll, as far as the sync engine depends on them.              *)
(*                                                                         *)
(* The destination platforms, the file system and the user (Ctrl+C) are    *)
(* the environment.  A platform answers an upload from its own state: an   *)
(* activity whose external id it already holds is a duplicate, any other   *)
(* is created.  Everything else the environment can do to a run (a failed  *)
(* request, a rejection, a time-out, a failed file write, a failed login)  *)
(* is a fault.  A behaviour contains at most MaxFaults disturbances: faults *)
(* and the user's cancellation.  Before the first run Strava may already   *)
(* hold activities for any of the workouts (uploaded by an earlier         *)
(* installation); Garmin starts without any.                               *)
(*                                                                         *)
(* Texts (error messages) are sequences of words, so that                  *)
(* strings.Contains and fmt.Errorf("upload failed: %s", ..) are computed.  *)
(* SyncStatus.SyncedAt (wall-clock time) is not modelled.                  *)
(***************************************************************************)
EXTENDS Naturals, Integers, Sequences, FiniteSets, TLC

\* ------------------------------------------------------------------ bounds
NumWorkouts == 2        \* workouts returned by the source, IDs 1..NumWorkouts
MaxFaults   == 1        \* disturbances (faults, cancellation) in one behaviour
NumRequests == 2        \* POST /sync requests in one behaviour
MaxWatermark == 2       \* lastLoaded values the source returns: 0..MaxWatermark
MaxItems    == 2        \* activities on one page: 0..MaxItems
MaxPages    == 2        \* page requests that are counted and whose items are kept
MaxDuration == 3700     \* workout durations, in seconds: 0..MaxDuration
MaxPatternLen == 3      \* a workout name is a pattern of up to MaxPatternLen
MaxRepeat   == 18       \* characters, written once or MaxRepeat times
MaxScoreLen == 4        \* scores: all strings of up to MaxScoreLen characters
MaxSectionType == 13    \* section type codes 0..MaxSectionType (1..12 are named)
MaxTimeCap  == 2        \* section time caps 0..MaxTimeCap minutes
MaxSections == 2        \* sections of a workout: 0..MaxSections
MaxExercises == 2       \* exercises of a workout: 0..MaxExercises
MaxBatch    == 2        \* workouts handed to GenerateAll: 0..MaxBatch

Workouts  == 1..NumWorkouts
Requests  == 1..NumRequests
Platforms == {"strava", "garmin"}

\* --platform values the model draws from (cmd/main.go:112, default strava)
PlatformLists == { <<"strava">>, <<"garmin">>, <<"strava", "garmin">> }

\* A behaviour of the CLI is a first run of `sync` followed by a second one
\* over the same workouts.
RunOrder == <<"first", "second">>

\* ------------------------------------------------------------ sequences
Range(s) == { s[k] : k \in DOMAIN s }

IsPrefix(s, t) == /\ Len(s) <= Len(t)
                  /\ \A k \in 1..Len(s) : s[k] = t[k]

\* strings.Contains(text, word) on a text held as a sequence of words
Contains(text, word) == word \in Range(text)

\* the workouts in source order, as GetWorkoutHistory returns them
SourceWorkouts == [k \in 1..NumWorkouts |-> k]

\* ---------------------------------------------------------------- texts
NoText          == << >>
TxtAlreadyExists == <<"already_exists">>
TxtDuplicate    == <<"duplicate">>
TxtNetwork      == <<"upload", "request", "failed">>
TxtTimedOut     == <<"upload", "timed", "out">>
TxtCanceled     == <<"context", "canceled">>
TxtRejected     == <<"bad", "file">>

\* what a platform says about an activity it already holds
StravaDuplicateTexts == { <<"duplicate">>, <<"duplicate", "of", "activity">> }
GarminDuplicateTexts == { <<"duplicate", "activity">>, <<"already exists">> }

\* fmt.Errorf("upload failed: %s", text)
UploadFailed(text) == <<"upload", "failed:">> \o text

\* fmt.Sprintf("%d", activityID); the platform's id of workout w's activity
ActivityID(p, w) == <<p, w>>
NoID == << >>

\* ------------------------------------------------------------ SyncStatus
SyncStatus(w, p, ext, ok, msg) ==
    [workout_id |-> w, platform |-> p, external_id |-> ext,
     success |-> ok, error_message |-> msg]

EmptyHistory == [w \in Workouts |-> << >>]

\* a recordSync that assigns the new record instead of appending it
recordSyncOverwrite(h, w, p, ext, ok, msg) ==
    [h EXCEPT ![w] = <<SyncStatus(w, p, ext, ok, msg)>>]

\* recordSync (cmd/main.go): append one status under the workout's key
recordSync(h, w, p, ext, ok, msg) ==
    [h EXCEPT ![w] = Append(h[w], SyncStatus(w, p, ext, ok, msg))]

\* isWorkoutSynced with the test of `synced` inverted
isWorkoutSyncedInverted(h, w, plats) ==
    /\ h[w] # << >>
    /\ \A k \in 1..Len(plats) :
          ~ \E n \in 1..Len(h[w]) :
                h[w][n].platform = plats[k] /\ h[w][n].success

\* isWorkoutSynced (cmd/main.go): a success record on every requested platform
isWorkoutSynced(h, w, plats) ==
    /\ h[w] # << >>
    /\ \A k \in 1..Len(plats) :
          \E n \in 1..Len(h[w]) :
              h[w][n].platform = plats[k] /\ h[w][n].success

\* Generator.GenerateAll: the paths of the workouts that were written, in
\* order; a workout whose Generate failed is skipped (the list is compacted)
TcxFile(w) == <<"tcx", w>>

RECURSIVE GenerateAll(_, _)
GenerateAll(ws, failed) ==
    IF ws = << >> THEN << >>
    ELSE IF Head(ws) \in failed
         THEN GenerateAll(Tail(ws), failed)
         ELSE <<TcxFile(Head(ws))>> \o GenerateAll(Tail(ws), failed)

\* the loop `for _, w := range workouts { if force || !synced { append } }`
RECURSIVE FilterToSync(_, _, _, _)
FilterToSync(ws, h, frc, plats) ==
    IF ws = << >> THEN << >>
    ELSE IF frc \/ ~isWorkoutSynced(h, Head(ws), plats)
         THEN <<Head(ws)>> \o FilterToSync(Tail(ws), h, frc, plats)
         ELSE FilterToSync(Tail(ws), h, frc, plats)

\* ----------------------------------------------- Strava upload protocol
\* What CheckUploadStatus can come back with while WaitForUpload polls:
\*   [kind |-> "error",  text]  status.Error # ""
\*   [kind |-> "ready",  id]    status.ActivityID # 0
\*   [kind |-> "checkerr"]      the status request itself failed
\*   [kind |-> "never"]         neither before the deadline
\*   [kind |-> "canceled"]      ctx done while waiting
\* the wait budget syncToStrava passes (2*time.Minute) and the pause between
\* two status requests (2*time.Second), in seconds
UploadTimeout == 120
PollInterval  == 2

NoStatus == [Error |-> NoText, ActivityID |-> NoID]

\* a WaitForUpload whose loop falls through to `return status, nil`
RECURSIVE WaitLoopNoError(_, _, _)
WaitLoopNoError(now, deadline, ans) ==
    IF ~(now < deadline)
    THEN [status |-> NoStatus, err |-> NoText, elapsed |-> now]
    ELSE CASE ans.kind = "checkerr" -> [status |-> NoStatus, err |-> TxtNetwork, elapsed |-> now]
           [] ans.kind = "error"    -> [status |-> [Error |-> ans.text, ActivityID |-> NoID],
                                        err |-> UploadFailed(ans.text), elapsed |-> now]
           [] ans.kind = "ready"    -> [status |-> [Error |-> NoText, ActivityID |-> ans.id],
                                        err |-> NoText, elapsed |-> now]
           [] ans.kind = "canceled" -> [status |-> NoStatus, err |-> TxtCanceled, elapsed |-> now]
           [] OTHER                 -> WaitLoopNoError(now + PollInterval, deadline, ans)

\* WaitForUpload's loop `for time.Now().Before(deadline)`: one status request
\* per round, then the 2 s pause; returns (status, err) and the time spent
RECURSIVE WaitLoop(_, _, _)
WaitLoop(now, deadline, ans) ==
    IF ~(now < deadline)
    THEN [status |-> NoStatus, err |-> TxtTimedOut, elapsed |-> now]
    ELSE CASE ans.kind = "checkerr" -> [status |-> NoStatus, err |-> TxtNetwork, elapsed |-> now]
           [] ans.kind = "error"    -> [status |-> [Error |-> ans.text, ActivityID |-> NoID],
                                        err |-> UploadFailed(ans.text), elapsed |-> now]
           [] ans.kind = "ready"    -> [status |-> [Error |-> NoText, ActivityID |-> ans.id],
                                        err |-> NoText, elapsed |-> now]
           [] ans.kind = "canceled" -> [status |-> NoStatus, err |-> TxtCanceled, elapsed |-> now]
           [] OTHER                 -> WaitLoop(now + PollInterval, deadline, ans)

\* WaitForUpload(ctx, uploadID, 2*time.Minute) returns (status, err).
WaitForUpload(ans) == WaitLoop(0, UploadTimeout, ans)

\* syncToStrava recording a failed wait without err.Error()
StravaOutcomeNoText(r) ==
    IF r.err # NoText
    THEN [ext |-> NoID, ok |-> FALSE, msg |-> NoText]
    ELSE IF r.status.Error # NoText
         THEN IF r.status.Error = TxtDuplicate \/ Contains(r.status.Error, "duplicate")
              THEN [ext |-> NoID, ok |-> TRUE, msg |-> TxtDuplicate]
              ELSE [ext |-> NoID, ok |-> FALSE, msg |-> r.status.Error]
         ELSE [ext |-> r.status.ActivityID, ok |-> TRUE, msg |-> NoText]

\* syncToStrava, after WaitForUpload returned r = (status, err): the
\* arguments of the recordSync call the if-chain reaches
StravaOutcome(r) ==
    IF r.err # NoText
    THEN [ext |-> NoID, ok |-> FALSE, msg |-> r.err]
    ELSE IF r.status.Error # NoText
         THEN IF r.status.Error = TxtDuplicate \/ Contains(r.status.Error, "duplicate")
              THEN [ext |-> NoID, ok |-> TRUE, msg |-> TxtDuplicate]
              ELSE [ext |-> NoID, ok |-> FALSE, msg |-> r.status.Error]
         ELSE [ext |-> r.status.ActivityID, ok |-> TRUE, msg |-> NoText]

\* syncToGarmin, after UploadActivity returned r = (id, err): the arguments
\* of the recordSync call
GarminOutcome(r) ==
    IF r.err # NoText
    THEN IF Contains(r.err, "duplicate") \/ Contains(r.err, "already exists")
         THEN [ext |-> NoID, ok |-> TRUE, msg |-> TxtDuplicate]
         ELSE [ext |-> NoID, ok |-> FALSE, msg |-> r.err]
    ELSE [ext |-> r.id, ok |-> TRUE, msg |-> NoText]

\* the iteration reached its end: neither `continue` was taken, the new
\* activity was recorded, and the time.Sleep at the loop's end follows
Recorded(o) == o.ok /\ o.msg = NoText

\* time.Sleep(500 * time.Millisecond), time.Sleep(1 * time.Second)
StravaPacing == 500
GarminPacing == 1000

\* ------------------------------------------------------------- webhook
\* isWorkoutSyncedInHistory: any success record, whatever the platform
isWorkoutSyncedInHistory(h, w) ==
    \E n \in 1..Len(h[w]) : h[w][n].success

\* recordSyncInHistory: as recordSync, the platform is always "strava"
recordSyncInHistory(h, w, ext, ok, msg) ==
    [h EXCEPT ![w] = Append(h[w], SyncStatus(w, "strava", ext, ok, msg))]

\* the loop `for _, w := range workouts { if !synced { append } }`
RECURSIVE FilterUnsynced(_, _)
FilterUnsynced(ws, h) ==
    IF ws = << >> THEN << >>
    ELSE IF ~isWorkoutSyncedInHistory(h, Head(ws))
         THEN <<Head(ws)>> \o FilterUnsynced(Tail(ws), h)
         ELSE FilterUnsynced(Tail(ws), h)

\* strava.Client.GetActivitiesInRange: the activities Strava holds in
\* [earliest workout - 1 day, latest workout + 1 day]; every workout of the
\* batch lies in that window
GetActivitiesInRange(held) ==
    { [ID |-> ActivityID("strava", w), ExternalID |-> w] : w \in held }

\* strava.Client.ActivityExistsForWorkout: the activities whose external id
\* is the workout's ID (empty: nil)
ActivityExistsForWorkout(acts, w) ==
    { a \in acts : a.ExternalID = w }

\* WebhookServer.runSync, after WaitForUpload: the status recorded and the
\* counter incremented
WebhookOutcome(r) ==
    IF r.err # NoText
    THEN [ext |-> NoID, ok |-> FALSE, msg |-> r.err, counter |-> "Errors"]
    ELSE IF r.status.Error # NoText
         THEN IF r.status.Error = TxtDuplicate
              THEN [ext |-> NoID, ok |-> TRUE, msg |-> TxtDuplicate, counter |-> "Skipped"]
              ELSE [ext |-> NoID, ok |-> FALSE, msg |-> r.status.Error,
                    counter |-> "Errors"]
         ELSE [ext |-> r.status.ActivityID, ok |-> TRUE, msg |-> NoText,
               counter |-> "Uploaded"]

\* a TryLock whose result is ignored: every caller takes the mutex
TryLockIgnored(locked) == TRUE

\* sync.Mutex.TryLock: succeeds exactly when the mutex is free
TryLock(locked) == ~locked

\* a SyncResult left at its zero value: &SyncResult{}
NewSyncResultZero == [Success |-> FALSE, Uploaded |-> 0, Skipped |-> 0, Errors |-> 0]

\* &SyncResult{Success: true}
NewSyncResult == [Success |-> TRUE, Uploaded |-> 0, Skipped |-> 0, Errors |-> 0]

\* a request that has not arrived yet
IdleRequest ==
    [pc |-> "idle", code |-> 0, dryRun |-> FALSE, history |-> EmptyHistory, loaded |-> EmptyHistory,
     toSync |-> << >>, tcxFiles |-> << >>, i |-> 1,
     existing |-> [ok |-> FALSE, acts |-> {}], result |-> NewSyncResult]

\* --------------------------------------------------------------- state
VARIABLES
    file,       \* the history file: workout -> sequence of SyncStatus
    remote,     \* platform -> external ids of the activities it holds
    faults,     \* environment faults so far
    uploads,    \* Upload invocations of the runs in progress (observation); by: 0 the CLI, h request h
    \* the CLI process
    pc, run, force, dryRun, platforms, cancelled,
    history,    \* the run's in-memory history map
    loaded,     \* the history as loaded at run start (observation)
    atCancel,   \* the in-memory history when cancel() was called (observation)
    authFailed, \* the platforms whose sync function returned "not authenticated"
                \* in this run (observation)
    slept,      \* pacing delay (ms) slept since the run's last Upload invocation
    saves,      \* writes of the history file by this run
    repeat,     \* this run repeats the command line of the run before it,
                \* which ran to its end without cancellation (observation)
    toSync, tcxFiles, pidx, i,
    result,     \* what runSync returned: "none" | "nil" | "error"
    \* the webhook server
    syncMutex,  \* WebhookServer.syncMutex is held
    req,        \* per POST /sync request: the handler's position and locals
    lastSync,   \* WebhookServer.lastSync: the request whose start time it is
    lastResult, \* WebhookServer.lastResult: << >> (nil) or <<[of, result]>>
    \* the source client's fetchAllActivities
    fpc,        \* "idle" | "loop" | "done"
    lastLoaded, \* the watermark sent as loadAfter
    allActivities,
    requests,   \* page requests made so far, counted up to MaxPages (observation)
    ferr,       \* the error fetchAllActivities returned: "none" | "nil" | "error"
    \* the TCX generator
    duration,   \* the duration generateTrackpointsWithHR was called with, in seconds
    track,      \* the Track it returned: a sequence of [Time, HeartRateBpm]
    name,       \* the workout name generateFilename was called with
    filename,   \* the name part of the file name it returned
    score,      \* the score text parseScore was called with
    parsed,     \* << >> before the call, <<the WorkoutResult after it>> then
    section,    \* the section read from the response: Title, Notes, Type, TimeCap
    titled,     \* << >> before the title is settled, <<section.Title>> after
    workout,    \* the workout given to workoutToTCX: Duration, ResultTime (s)
    generator,  \* the Generator: its defaultDuration (s)
    lap,        \* << >> before workoutToTCX, <<the Lap it built>> after
    described,  \* the workout FormatDescription was called on: Sections, Exercises, Result
    lines,      \* << >> before the call, <<the lines it joined>> after
    batch,      \* the workouts GenerateAll was called with
    gi,         \* GenerateAll's loop index (0: not called yet)
    disk,       \* the output directory: the files written, path and content
    files,      \* the paths GenerateAll returns, each with the workout it is for
    spc,        \* handleStatus: "idle", "sync", "result", "done"
    stSync,     \* handleStatus: the s.lastSync it read
    reply       \* << >> before the response, <<the JSON object>> after

fetchVars == <<fpc, lastLoaded, allActivities, requests, ferr>>

tcxVars == <<duration, track>>

nameVars == <<name, filename>>

scoreVars == <<score, parsed>>

sectionVars == <<section, titled>>

lapVars == <<workout, generator, lap>>

descVars == <<described, lines>>

batchVars == <<batch, gi, disk, files>>

statusVars == <<spc, stSync, reply>>

\* the variables of the parts that run apart from a sync run
auxVars == <<fetchVars, tcxVars, nameVars, scoreVars, sectionVars, lapVars, descVars, batchVars, statusVars>>

vars == <<file, remote, faults, uploads, pc, run, force, dryRun, platforms,
          cancelled, history, loaded, atCancel, repeat, authFailed, toSync, tcxFiles,
          pidx, i, result, slept, saves, syncMutex, req, lastSync, lastResult, auxVars>>

cliVars == <<pc, run, force, dryRun, platforms, cancelled, history, loaded,
             atCancel, repeat, authFailed, toSync, tcxFiles, pidx, i, result,
             slept, saves>>

webVars == <<syncMutex, req, lastSync, lastResult>>

\* the shared state and both processes of the sync engine
syncVars == <<file, remote, faults, uploads, cliVars, webVars>>

Init ==
    /\ file = EmptyHistory
    /\ \E S \in SUBSET Workouts :
          remote = [p \in Platforms |-> IF p = "strava" THEN S ELSE {}]
    /\ faults = 0
    /\ uploads = {}
    /\ pc = "idle" /\ run = 0
    /\ force = FALSE /\ dryRun = FALSE /\ platforms = <<"strava">>
    /\ cancelled = FALSE
    /\ history = EmptyHistory /\ loaded = EmptyHistory /\ atCancel = EmptyHistory
    /\ repeat = FALSE /\ authFailed = {}
    /\ slept = 0 /\ saves = 0
    /\ toSync = << >> /\ tcxFiles = << >> /\ pidx = 1 /\ i = 1
    /\ result = "none"
    /\ syncMutex = FALSE
    /\ req = [h \in Requests |-> IdleRequest]
    /\ lastSync = 0
    /\ lastResult = << >>
    /\ fpc = "idle" /\ lastLoaded = 0 /\ allActivities = << >>
    /\ requests = 0 /\ ferr = "none"
    /\ duration = 0 /\ track = << >>
    /\ name = << >> /\ filename = << >>
    /\ score = << >> /\ parsed = << >>
    /\ section = [Title |-> << >>, Notes |-> << >>, Type |-> 0, TimeCap |-> 0]
    /\ titled = << >>
    /\ workout = [Duration |-> 0, ResultTime |-> << >>]
    /\ generator = [defaultDuration |-> 0]
    /\ lap = << >>
    /\ described = [Sections |-> << >>, Exercises |-> << >>, Result |-> << >>]
    /\ lines = << >>
    /\ batch = << >> /\ gi = 0 /\ disk = {} /\ files = << >>
    /\ spc = "idle" /\ stSync = 0 /\ reply = << >>

\* ------------------------------------------------------- the environment
\* what Strava reports for workout w's upload, from its own state
StravaAnswers(w) ==
    IF w \in remote["strava"]
    THEN { [kind |-> "error", text |-> t] : t \in StravaDuplicateTexts }
    ELSE { [kind |-> "ready", id |-> ActivityID("strava", w)] }

\* what can go wrong instead (each is one fault)
StravaFaultAnswers ==
    { [kind |-> "error", text |-> TxtRejected], [kind |-> "never"], [kind |-> "checkerr"] }

\* what Garmin's UploadActivity returns for workout w, from its own state
GarminAnswers(w) ==
    IF w \in remote["garmin"]
    THEN { [err |-> UploadFailed(t), id |-> NoID] : t \in GarminDuplicateTexts }
    ELSE { [err |-> NoText, id |-> ActivityID("garmin", w)] }

GarminFaultAnswers ==
    { [err |-> TxtNetwork, id |-> NoID], [err |-> UploadFailed(TxtRejected), id |-> NoID] }

CanFault == faults < MaxFaults

\* ------------------------------------------------------------ CLI: runSync
\* the command line: sync [--force] [--dry-run] [--platform ...]
CliStart ==
    /\ pc \in {"idle", "done"}
    /\ run < Len(RunOrder)
    /\ \E f \in BOOLEAN, d \in BOOLEAN, ps \in PlatformLists :
          /\ force' = f /\ dryRun' = d /\ platforms' = ps
          /\ repeat' = /\ pc = "done" /\ result = "nil" /\ ~cancelled
                        /\ f = force /\ d = dryRun /\ ps = platforms
    /\ run' = run + 1
    /\ pc' = "prepare"
    /\ cancelled' = FALSE
    /\ result' = "none"
    /\ uploads' = { u \in uploads : u.by # 0 }
    /\ history' = EmptyHistory /\ loaded' = EmptyHistory /\ atCancel' = EmptyHistory
    /\ authFailed' = {}
    /\ slept' = 0 /\ saves' = 0
    /\ toSync' = << >> /\ tcxFiles' = << >> /\ pidx' = 1 /\ i' = 1
    /\ UNCHANGED <<auxVars, webVars>>
    /\ UNCHANGED <<file, remote, faults>>

\* a runSync without the dry-run block
DryRunReturnsNever(dry) == FALSE

\* `if dryRun { ...preview...; return nil }` before the platform loop
DryRunReturns(dry) == dry

\* runSync up to the platform loop: fetch, loadSyncHistory, the toSync
\* filter, GenerateAll, the dry-run preview
CliPrepare ==
    /\ pc = "prepare"
    /\ IF cancelled
       THEN \* GetWorkoutHistory fails on the cancelled context
            /\ result' = "error" /\ pc' = "done"
            /\ UNCHANGED <<history, loaded, toSync, tcxFiles, faults>>
       ELSE LET ts == FilterToSync(SourceWorkouts, file, force, platforms) IN
            /\ history' = file
            /\ loaded' = file
            /\ toSync' = ts
            /\ IF ts = << >>
               THEN /\ result' = "nil" /\ pc' = "done"
                    /\ UNCHANGED <<tcxFiles, faults>>
               ELSE \E failed \in SUBSET Range(ts) :
                        /\ faults + Cardinality(failed) <= MaxFaults
                        /\ faults' = faults + Cardinality(failed)
                        /\ tcxFiles' = GenerateAll(ts, failed)
                        /\ IF DryRunReturns(dryRun)
                           THEN result' = "nil" /\ pc' = "done"
                           ELSE result' = result /\ pc' = "platforms"
    /\ UNCHANGED <<auxVars, webVars, atCancel, repeat, authFailed, slept, saves>>
    /\ UNCHANGED <<file, remote, uploads, run, force, dryRun, platforms,
                   cancelled, pidx, i>>

\* `for _, platform := range platforms`: the cancellation check and the
\* entry of syncToStrava / syncToGarmin (credentials, client, login)
CliPlatform ==
    /\ pc = "platforms"
    /\ IF pidx > Len(platforms)
       THEN pc' = "save" /\ UNCHANGED <<result, pidx, i, faults, authFailed>>
       ELSE IF cancelled
       THEN result' = "error" /\ pc' = "done"
            /\ UNCHANGED <<pidx, i, faults, authFailed>>
       ELSE \/ /\ pc' = platforms[pidx] /\ i' = 1
               /\ UNCHANGED <<result, pidx, faults, authFailed>>
            \/ \* not authenticated: syncToX returns the error, runSync prints it
               /\ CanFault /\ faults' = faults + 1
               /\ authFailed' = authFailed \cup {platforms[pidx]}
               /\ pidx' = pidx + 1 /\ pc' = "platforms"
               /\ UNCHANGED <<result, i>>
    /\ UNCHANGED <<auxVars, webVars, atCancel, repeat, slept, saves>>
    /\ UNCHANGED <<file, remote, uploads, run, force, dryRun, platforms,
                   cancelled, history, loaded, toSync, tcxFiles>>

\* one iteration of syncToStrava's loop up to UploadActivity's return
StravaUpload ==
    /\ pc = "strava"
    /\ IF i > Len(toSync) \/ i > Len(tcxFiles) \/ cancelled
       THEN \* loop ends, `break`, or `return ctx.Err()`
            /\ pidx' = pidx + 1 /\ pc' = "platforms"
            /\ UNCHANGED <<uploads, history, i, faults, slept>>
       ELSE /\ uploads' = uploads \cup
                  {[by |-> 0, platform |-> "strava", workout |-> toSync[i], file |-> tcxFiles[i]]}
            /\ slept' = 0
            /\ \/ /\ pc' = "strava_wait"
                  /\ UNCHANGED <<history, i, pidx, faults>>
               \/ /\ CanFault /\ faults' = faults + 1
                  /\ history' = recordSync(history, toSync[i], "strava", NoID, FALSE, TxtNetwork)
                  /\ i' = i + 1
                  /\ UNCHANGED <<pc, pidx>>
    /\ UNCHANGED <<auxVars, webVars, atCancel, repeat, authFailed, saves>>
    /\ UNCHANGED <<file, remote, run, force, dryRun, platforms, cancelled,
                   loaded, toSync, tcxFiles, result>>

\* WaitForUpload and the rest of the iteration, for one answer of Strava
StravaWaitWith(ans) ==
    /\ pc = "strava_wait"
    /\ LET w == toSync[i]
           o == StravaOutcome(WaitForUpload(ans))
       IN
          /\ history' = recordSync(history, w, "strava", o.ext, o.ok, o.msg)
          /\ slept' = IF Recorded(o) THEN StravaPacing ELSE 0
          /\ faults' = IF ans \in StravaFaultAnswers THEN faults + 1 ELSE faults
          /\ remote' = IF ans.kind = "ready"
                       THEN [remote EXCEPT !["strava"] = @ \cup {w}]
                       ELSE remote
    /\ i' = i + 1
    /\ pc' = "strava"
    /\ UNCHANGED <<auxVars, webVars, atCancel, repeat, authFailed, saves>>
    /\ UNCHANGED <<file, uploads, run, force, dryRun, platforms, cancelled,
                   loaded, toSync, tcxFiles, pidx, result>>

StravaWait ==
    /\ pc = "strava_wait"
    /\ \E ans \in (IF cancelled THEN {[kind |-> "canceled"]}
                   ELSE StravaAnswers(toSync[i]) \cup
                        (IF CanFault THEN StravaFaultAnswers ELSE {})) :
          StravaWaitWith(ans)

\* one iteration of syncToGarmin's loop
GarminUpload ==
    /\ pc = "garmin"
    /\ IF i > Len(toSync) \/ i > Len(tcxFiles)
       THEN /\ pidx' = pidx + 1 /\ pc' = "platforms"
            /\ UNCHANGED <<uploads, history, i, faults, remote, slept>>
       ELSE LET w == toSync[i] IN
            /\ uploads' = uploads \cup
                  {[by |-> 0, platform |-> "garmin", workout |-> w, file |-> tcxFiles[i]]}
            /\ \E r \in (IF cancelled THEN {[err |-> TxtNetwork \o TxtCanceled, id |-> NoID]}
                         ELSE GarminAnswers(w) \cup (IF CanFault THEN GarminFaultAnswers ELSE {})) :
                  /\ LET o == GarminOutcome(r) IN
                        /\ history' = recordSync(history, w, "garmin", o.ext, o.ok, o.msg)
                        /\ slept' = IF Recorded(o) THEN GarminPacing ELSE 0
                  /\ faults' = IF r \in GarminFaultAnswers /\ ~cancelled THEN faults + 1 ELSE faults
                  /\ remote' = IF r.err = NoText
                               THEN [remote EXCEPT !["garmin"] = @ \cup {w}]
                               ELSE remote
            /\ i' = i + 1
            /\ UNCHANGED <<pc, pidx>>
    /\ UNCHANGED <<auxVars, webVars, atCancel, repeat, authFailed, saves>>
    /\ UNCHANGED <<file, run, force, dryRun, platforms, cancelled,
                   loaded, toSync, tcxFiles, result>>

\* saveSyncHistory after the platform loop, and `return nil`
CliSave ==
    /\ pc = "save"
    /\ file' = history
    /\ saves' = saves + 1
    /\ result' = "nil"
    /\ pc' = "done"
    /\ UNCHANGED <<auxVars, webVars, atCancel, repeat, authFailed, slept>>
    /\ UNCHANGED <<remote, faults, uploads, run, force, dryRun, platforms,
                   cancelled, history, loaded, toSync, tcxFiles, pidx, i>>

\* SIGINT / SIGTERM: the signal goroutine calls cancel()
Cancel ==
    /\ pc \notin {"idle", "done"}
    /\ ~cancelled
    /\ CanFault /\ faults' = faults + 1
    /\ cancelled' = TRUE
    /\ atCancel' = history
    /\ UNCHANGED <<auxVars, webVars, repeat, authFailed, slept, saves>>
    /\ UNCHANGED <<file, remote, uploads, pc, run, force, dryRun,
                   platforms, history, loaded, toSync, tcxFiles, pidx, i, result>>

Next ==
    \/ CliStart
    \/ CliPrepare
    \/ CliPlatform
    \/ StravaUpload
    \/ StravaWait
    \/ GarminUpload
    \/ CliSave
    \/ Cancel

Spec == Init /\ [][Next]_vars

\* ------------------------------------------------- webhook: POST /sync
\* handleSync up to the call of runSync: the token check and TryLock
WhRequest(h) ==
    /\ req[h].pc = "idle"
    /\ \E d \in BOOLEAN :    \* the request's query parameter dry-run
       \/ \* token # s.authToken: 401
          /\ req' = [req EXCEPT ![h] = [@ EXCEPT !.pc = "done", !.code = 401,
                                                 !.dryRun = d]]
          /\ UNCHANGED syncMutex
       \/ IF TryLock(syncMutex)
          THEN /\ syncMutex' = TRUE
               /\ req' = [req EXCEPT ![h] = [@ EXCEPT !.pc = "run", !.dryRun = d]]
          ELSE \* 409 Conflict, no batch
               /\ req' = [req EXCEPT ![h] = [@ EXCEPT !.pc = "done", !.code = 409,
                                                      !.dryRun = d]]
               /\ UNCHANGED syncMutex
    /\ UNCHANGED <<file, remote, faults, uploads, lastSync, lastResult>>
    /\ UNCHANGED <<auxVars, cliVars>>

\* WebhookServer.runSync up to the upload loop: login, fetch, load, filter,
\* GenerateAll, EnsureValidToken, GetActivitiesInRange
WhPrepare(h) ==
    /\ req[h].pc = "run"
    /\ \/ \* Aimharder login or fetch fails
          /\ CanFault /\ faults' = faults + 1
          /\ req' = [req EXCEPT ![h] = [@ EXCEPT !.pc = "ret", !.result.Success = FALSE]]
       \/ LET ts == FilterUnsynced(SourceWorkouts, file) IN
          IF ts = << >>
          THEN /\ req' = [req EXCEPT ![h] = [@ EXCEPT !.pc = "ret", !.history = file,
                                                     !.loaded = file]]
               /\ UNCHANGED faults
          ELSE \E failed \in SUBSET Range(ts) :
                 LET n == faults + Cardinality(failed)
                     prepared == [req[h] EXCEPT !.history = file, !.loaded = file,
                                                !.toSync = ts, !.i = 1,
                                                !.tcxFiles = GenerateAll(ts, failed)]
                 IN
                 /\ n <= MaxFaults
                 /\ \/ \* the existence query answers
                       /\ faults' = n
                       /\ req' = [req EXCEPT ![h] =
                             [prepared EXCEPT !.pc = "loop",
                                 !.existing = [ok |-> TRUE,
                                               acts |-> GetActivitiesInRange(remote["strava"])]]]
                    \/ \* the existence query fails: existingActivities = nil
                       /\ n < MaxFaults /\ faults' = n + 1
                       /\ req' = [req EXCEPT ![h] = [prepared EXCEPT !.pc = "loop"]]
                    \/ \* EnsureValidToken fails
                       /\ n < MaxFaults /\ faults' = n + 1
                       /\ req' = [req EXCEPT ![h] =
                             [prepared EXCEPT !.pc = "ret", !.result.Success = FALSE]]
    /\ UNCHANGED <<file, remote, uploads, syncMutex, lastSync, lastResult>>
    /\ UNCHANGED <<auxVars, cliVars>>

\* one iteration of runSync's upload loop up to UploadActivity's return;
\* after the loop: saveSyncHistoryToFile and the result
WhUpload(h) ==
    /\ req[h].pc = "loop"
    /\ LET r == req[h]
           k == r.i
       IN
       IF k > Len(r.toSync) \/ k > Len(r.tcxFiles)
       THEN /\ file' = r.history
            /\ req' = [req EXCEPT ![h] = [@ EXCEPT !.pc = "ret",
                                 !.result.Success = IF r.result.Errors > 0 THEN FALSE
                                                    ELSE @]]
            /\ UNCHANGED <<uploads, faults>>
       ELSE LET w == r.toSync[k]
                found == ActivityExistsForWorkout(r.existing.acts, w)
            IN
            IF r.existing.ok /\ found # {}
            THEN /\ req' = [req EXCEPT ![h] = [@ EXCEPT
                            !.result.Skipped = @ + 1,
                            !.history = recordSyncInHistory(r.history, w,
                                            (CHOOSE a \in found : TRUE).ID, TRUE,
                                            TxtAlreadyExists),
                            !.i = k + 1]]
                 /\ UNCHANGED <<file, uploads, faults>>
            ELSE /\ uploads' = uploads \cup
                       {[by |-> h, platform |-> "strava", workout |-> w,
                         file |-> r.tcxFiles[k]]}
                 /\ \/ /\ req' = [req EXCEPT ![h] = [@ EXCEPT !.pc = "wait"]]
                       /\ UNCHANGED faults
                    \/ /\ CanFault /\ faults' = faults + 1
                       /\ req' = [req EXCEPT ![h] = [@ EXCEPT
                            !.result.Errors = @ + 1,
                            !.history = recordSyncInHistory(r.history, w, NoID, FALSE,
                                                            TxtNetwork),
                            !.i = k + 1]]
                 /\ UNCHANGED file
    /\ UNCHANGED <<remote, syncMutex, lastSync, lastResult>>
    /\ UNCHANGED <<auxVars, cliVars>>

\* WaitForUpload and the rest of the iteration
WhWait(h) ==
    /\ req[h].pc = "wait"
    /\ LET r == req[h]
           w == r.toSync[r.i]
       IN
       \E ans \in StravaAnswers(w) \cup (IF CanFault THEN StravaFaultAnswers ELSE {}) :
          LET o == WebhookOutcome(WaitForUpload(ans)) IN
          /\ req' = [req EXCEPT ![h] = [@ EXCEPT
                        !.history = recordSyncInHistory(r.history, w, o.ext, o.ok, o.msg),
                        !.result = [r.result EXCEPT ![o.counter] = @ + 1],
                        !.i = r.i + 1,
                        !.pc = "loop"]]
          /\ faults' = IF ans \in StravaFaultAnswers THEN faults + 1 ELSE faults
          /\ remote' = IF ans.kind = "ready"
                       THEN [remote EXCEPT !["strava"] = @ \cup {w}]
                       ELSE remote
    /\ UNCHANGED <<file, uploads, syncMutex, lastSync, lastResult>>
    /\ UNCHANGED <<auxVars, cliVars>>

\* handleSync after runSync returned: s.lastSync = startTime
WhSetLastSync(h) ==
    /\ req[h].pc = "ret"
    /\ lastSync' = h
    /\ req' = [req EXCEPT ![h] = [@ EXCEPT !.pc = "ret2"]]
    /\ UNCHANGED <<file, remote, faults, uploads, syncMutex, lastResult>>
    /\ UNCHANGED <<auxVars, cliVars>>

\* s.lastResult = result, the response, and the deferred Unlock
WhRespond(h) ==
    /\ req[h].pc = "ret2"
    /\ lastResult' = <<[of |-> h, result |-> req[h].result]>>
    /\ req' = [req EXCEPT ![h] = [@ EXCEPT !.pc = "done",
                     !.code = IF req[h].result.Success THEN 200 ELSE 500]]
    /\ syncMutex' = FALSE
    /\ UNCHANGED <<file, remote, faults, uploads, lastSync>>
    /\ UNCHANGED <<auxVars, cliVars>>

NextWebhook ==
    \/ \E h \in Requests : WhRequest(h)
    \/ \E h \in Requests : WhPrepare(h)
    \/ \E h \in Requests : WhUpload(h)
    \/ \E h \in Requests : WhWait(h)
    \/ \E h \in Requests : WhSetLastSync(h)
    \/ \E h \in Requests : WhRespond(h)

SpecWebhook == Init /\ [][NextWebhook]_vars

\* --------------------------------------- source client: fetchAllActivities
\* What one page request can come back with:
\*   [kind |-> "err"]                  doAPIRequest failed
\*   [kind |-> "status"]               a status other than 200
\*   [kind |-> "page", elements, lastLoaded]   a page: the ids of its
\*                                     elements and its watermark (an
\*                                     unparsable body is a page without
\*                                     elements)
\* the ids the source gives its elements; "" is an element without an id
ElementIDs == {"", "a1", "a2"}

PageContents == UNION {[1..n -> ElementIDs] : n \in 0..MaxItems}

Responses ==
    {[kind |-> "err"], [kind |-> "status"]} \cup
    {[kind |-> "page", elements |-> e, lastLoaded |-> wm] :
        e \in PageContents, wm \in 0..MaxWatermark}

\* parseActivityResponse: the items of a page, one per element that has an
\* id (and a date), in the order of the page
RECURSIVE PageItems(_)
PageItems(elements) ==
    IF elements = << >> THEN << >>
    ELSE IF Head(elements) = "" THEN PageItems(Tail(elements))
    ELSE <<[ID |-> Head(elements)]>> \o PageItems(Tail(elements))

\* GetWorkoutHistory: one workout per activity of the date range (here: all
\* of them), with the activity's ID
GetWorkoutHistory(activities) ==
    [k \in 1..Len(activities) |-> [ID |-> activities[k].ID]]

\* a watermark test that stops only when the watermark goes back
WatermarkStopsBackwards(newLastLoaded, last) == newLastLoaded < last

\* `if newLastLoaded == 0 || newLastLoaded == lastLoaded { break }`
WatermarkStops(newLastLoaded, last) == newLastLoaded = 0 \/ newLastLoaded = last

\* GetWorkoutHistory calls fetchAllActivities
FetchStart ==
    /\ fpc = "idle"
    /\ fpc' = "loop"
    /\ lastLoaded' = 0 /\ allActivities' = << >> /\ requests' = 0 /\ ferr' = "none"
    /\ UNCHANGED <<syncVars, tcxVars, nameVars, scoreVars, sectionVars, lapVars, descVars, batchVars, statusVars>>

\* one round of the loop, on the response resp; the context is not cancelled
FetchPageWith(resp) ==
    /\ fpc = "loop"
    /\ requests' = IF requests < MaxPages THEN requests + 1 ELSE requests
    /\ CASE resp.kind = "err" ->
              /\ fpc' = "done" /\ ferr' = "error" /\ allActivities' = << >>
              /\ UNCHANGED lastLoaded
         [] resp.kind = "status" ->
              /\ fpc' = "done" /\ ferr' = "nil"
              /\ UNCHANGED <<allActivities, lastLoaded>>
         [] OTHER ->
              IF Len(PageItems(resp.elements)) = 0
              THEN /\ fpc' = "done" /\ ferr' = "nil"
                   /\ UNCHANGED <<allActivities, lastLoaded>>
              ELSE /\ allActivities' =
                         IF requests < MaxPages
                         THEN allActivities \o PageItems(resp.elements)
                         ELSE allActivities
                   /\ IF WatermarkStops(resp.lastLoaded, lastLoaded)
                      THEN fpc' = "done" /\ ferr' = "nil" /\ UNCHANGED lastLoaded
                      ELSE fpc' = "loop" /\ ferr' = ferr
                           /\ lastLoaded' = resp.lastLoaded
    /\ UNCHANGED <<syncVars, tcxVars, nameVars, scoreVars, sectionVars, lapVars, descVars, batchVars, statusVars>>

FetchPage == \E resp \in Responses : FetchPageWith(resp)

NextFetch ==
    \/ FetchStart
    \/ FetchPage

\* the loop runs on its own goroutine-free call stack: each round is taken
SpecFetch == Init /\ [][NextFetch]_vars /\ WF_vars(NextFetch)

\* ------------------------------------ TCX generator: the trackpoint series
\* Times are seconds after startTime.  Floating-point values are held in
\* hundredths and truncated after each product.
PointInterval    == 30      \* a trackpoint every 30 seconds
MinPoints        == 4
MaxPoints        == 120
warmupDuration   == 300
cooldownDuration == 300
MinHR            == 100
MaxHR            == 185

\* for x > 6.28 { x -= 6.28 }, x in hundredths
RECURSIVE Normalize(_)
Normalize(x) == IF x > 628 THEN Normalize(x - 628) ELSE x

\* sinApprox: x - x^3/6 + x^5/120, argument and result in hundredths
sinApprox(x) ==
    LET n  == Normalize(x)
        x2 == (n * n) \div 100
        x3 == (x2 * n) \div 100
        x5 == (x3 * x2) \div 100
    IN  n - (x3 \div 6) + (x5 \div 120)

\* the heart rate of the phase the point lies in, before the clamp
PhaseHR(elapsed, totalSeconds) ==
    IF elapsed < warmupDuration
    THEN 110 + ((elapsed * 30) \div warmupDuration)
    ELSE IF elapsed > totalSeconds - cooldownDuration
    THEN 160 - (((elapsed - (totalSeconds - cooldownDuration)) * 40) \div cooldownDuration)
    ELSE \* phase*2 = elapsed/30; variation = int(12 * (0.5 + 0.5*sin))
         148 + ((600 + 6 * sinApprox((elapsed * 100) \div 30)) \div 100)

\* a clamp without the upper limit
ClampHRFromBelow(hr) == IF hr < MinHR THEN MinHR ELSE hr

\* `if hr < 100 { hr = 100 }; if hr > 185 { hr = 185 }`
ClampHR(hr) == IF hr < MinHR THEN MinHR ELSE IF hr > MaxHR THEN MaxHR ELSE hr

\* numPoints := totalSeconds / 30, raised to 4 and cut at 120
NumPoints(totalSeconds) ==
    LET n == totalSeconds \div PointInterval IN
    IF n < MinPoints THEN MinPoints ELSE IF n > MaxPoints THEN MaxPoints ELSE n

\* `for i := 0; i <= numPoints; i++`: one Trackpoint per round
generateTrackpointsWithHR(totalSeconds) ==
    [k \in 1..(NumPoints(totalSeconds) + 1) |->
        LET elapsed == (k - 1) * PointInterval IN
        [Time |-> elapsed,
         HeartRateBpm |-> ClampHR(PhaseHR(elapsed, totalSeconds) + (elapsed % 7) - 3)]]

\* workoutToTCX calls generateTrackpointsWithHR(startTime, duration)
TrackGenerate ==
    /\ track = << >>
    /\ \E d \in 0..MaxDuration :
          /\ duration' = d
          /\ track' = generateTrackpointsWithHR(d)
    /\ UNCHANGED <<syncVars, fetchVars, nameVars, scoreVars, sectionVars, lapVars, descVars, batchVars, statusVars>>

NextTrack == TrackGenerate

\* the generator runs before anything is uploaded
InitGenerator == Init /\ remote = [p \in Platforms |-> {}]

SpecTrack == InitGenerator /\ [][NextTrack]_vars

\* ------------------------------------------- TCX generator: the file name
\* A string is a sequence of one-character strings.
InvalidChars == <<"/", "\\", ":", "*", "?", "\"", "<", ">", "|", " ">>
SlugLimit    == 50

\* an `invalid` list without "|"
ReplaceInvalidNoPipe(s) ==
    [k \in 1..Len(s) |-> IF s[k] \in Range(InvalidChars) \ {"|"} THEN "-" ELSE s[k]]

\* for _, char := range invalid { result = strings.ReplaceAll(result, char, "-") }
ReplaceInvalid(s) ==
    [k \in 1..Len(s) |-> IF s[k] \in Range(InvalidChars) THEN "-" ELSE s[k]]

\* strings.ReplaceAll(s, "--", "-"): one pass, left to right, no overlaps
RECURSIVE ReplaceDoubleDash(_)
ReplaceDoubleDash(s) ==
    IF Len(s) < 2 THEN s
    ELSE IF s[1] = "-" /\ s[2] = "-"
         THEN <<"-">> \o ReplaceDoubleDash(SubSeq(s, 3, Len(s)))
         ELSE <<s[1]>> \o ReplaceDoubleDash(Tail(s))

\* strings.Contains(s, "--")
HasDoubleDash(s) == \E k \in 1..(Len(s) - 1) : s[k] = "-" /\ s[k + 1] = "-"

\* for strings.Contains(result, "--") { result = ReplaceAll(result, "--", "-") }
RECURSIVE CollapseDashes(_)
CollapseDashes(s) ==
    IF HasDoubleDash(s) THEN CollapseDashes(ReplaceDoubleDash(s)) ELSE s

\* strings.Trim(s, "-")
RECURSIVE TrimLeft(_)
TrimLeft(s) == IF s # << >> /\ Head(s) = "-" THEN TrimLeft(Tail(s)) ELSE s

RECURSIVE TrimRight(_)
TrimRight(s) ==
    IF s # << >> /\ s[Len(s)] = "-" THEN TrimRight(SubSeq(s, 1, Len(s) - 1)) ELSE s

TrimDashes(s) == TrimRight(TrimLeft(s))

\* strings.ToLower, on the letters the model uses
LowerOf(c) ==
    CASE c = "A" -> "a"
      [] c = "B" -> "b"
      [] c = "C" -> "c"
      [] c = "D" -> "d"
      [] c = "E" -> "e"
      [] c = "F" -> "f"
      [] c = "G" -> "g"
      [] c = "H" -> "h"
      [] c = "I" -> "i"
      [] c = "J" -> "j"
      [] c = "K" -> "k"
      [] c = "L" -> "l"
      [] c = "M" -> "m"
      [] c = "N" -> "n"
      [] c = "O" -> "o"
      [] c = "P" -> "p"
      [] c = "Q" -> "q"
      [] c = "R" -> "r"
      [] c = "S" -> "s"
      [] c = "T" -> "t"
      [] c = "U" -> "u"
      [] c = "V" -> "v"
      [] c = "W" -> "w"
      [] c = "X" -> "x"
      [] c = "Y" -> "y"
      [] c = "Z" -> "z"
      [] OTHER -> c

ToLower(s) == [k \in 1..Len(s) |-> LowerOf(s[k])]

sanitizeFilename(s) ==
    LET lower == ToLower(TrimDashes(CollapseDashes(ReplaceInvalid(s)))) IN
    IF Len(lower) > SlugLimit THEN SubSeq(lower, 1, SlugLimit) ELSE lower

\* generateFilename: the name part of "<date>_<time>_<name>.tcx"
generateFilename(s) ==
    LET n == sanitizeFilename(s) IN
    IF n = << >> THEN <<"w", "o", "r", "k", "o", "u", "t">> ELSE n

\* the workout names the model draws from
Alphabet == Range(InvalidChars) \cup {"-", "a", "A"}

Patterns == UNION {[1..n -> Alphabet] : n \in 0..MaxPatternLen}

Repeat(p, r) == [k \in 1..(Len(p) * r) |-> p[((k - 1) % Len(p)) + 1]]

\* Generator.Generate calls generateFilename(workout)
FilenameGenerate ==
    /\ filename = << >>
    /\ \E p \in Patterns, r \in {1, MaxRepeat} :
          /\ name' = Repeat(p, r)
          /\ filename' = generateFilename(Repeat(p, r))
    /\ UNCHANGED <<syncVars, fetchVars, tcxVars, scoreVars, sectionVars, lapVars, descVars, batchVars, statusVars>>

NextFilename == FilenameGenerate

SpecFilename == InitGenerator /\ [][NextFilename]_vars

\* ------------------------------------------- source client: parseScore
Digits == {"0", "1", "2", "3", "4", "5", "6", "7", "8", "9"}

DigitVal(c) ==
    CASE c = "0" -> 0 [] c = "1" -> 1 [] c = "2" -> 2 [] c = "3" -> 3
      [] c = "4" -> 4 [] c = "5" -> 5 [] c = "6" -> 6 [] c = "7" -> 7
      [] c = "8" -> 8 [] OTHER -> 9

AllDigits(s) == s # << >> /\ \A k \in 1..Len(s) : s[k] \in Digits

\* strconv.Atoi on a run of digits
RECURSIVE Atoi(_)
Atoi(s) ==
    IF s = << >> THEN 0
    ELSE Atoi(SubSeq(s, 1, Len(s) - 1)) * 10 + DigitVal(s[Len(s)])

\* white space (\s, unicode.IsSpace) among the characters the model uses
IsSpace(c) == c \in {" ", "\n"}

\* strings.TrimSpace
RECURSIVE TrimSpaceLeft(_)
TrimSpaceLeft(s) == IF s # << >> /\ IsSpace(Head(s)) THEN TrimSpaceLeft(Tail(s)) ELSE s

RECURSIVE TrimSpaceRight(_)
TrimSpaceRight(s) ==
    IF s # << >> /\ IsSpace(s[Len(s)])
    THEN TrimSpaceRight(SubSeq(s, 1, Len(s) - 1)) ELSE s

TrimSpace(s) == TrimSpaceRight(TrimSpaceLeft(s))

\* the end of the run of digits that starts at a (\d+, greedy)
RunEnd(s, a) ==
    CHOOSE b \in a..Len(s) :
        /\ AllDigits(SubSeq(s, a, b))
        /\ b = Len(s) \/ s[b + 1] \notin Digits

\* the first position from k on that holds no space (\s*); Len(s)+1 if none
SkipSpaces(s, k) ==
    CHOOSE j \in k..(Len(s) + 1) :
        /\ \A m \in k..(j - 1) : IsSpace(s[m])
        /\ j = Len(s) + 1 \/ ~IsSpace(s[j])

\* ^(\d{1,2}):(\d{2})(?::(\d{2}))?$ with the first group of a digits
TimeSplit(s, a) ==
    /\ Len(s) \in {a + 3, a + 6}
    /\ AllDigits(SubSeq(s, 1, a))
    /\ s[a + 1] = ":"
    /\ AllDigits(SubSeq(s, a + 2, a + 3))
    /\ Len(s) = a + 6 => (s[a + 4] = ":" /\ AllDigits(SubSeq(s, a + 5, a + 6)))

MatchesTime(s) == \E a \in 1..2 : TimeSplit(s, a)

\* the duration of a matching time, in seconds
TimeOf(s) ==
    LET a == CHOOSE x \in 1..2 : TimeSplit(s, x) IN
    IF Len(s) = a + 6
    THEN Atoi(SubSeq(s, 1, a)) * 3600 + Atoi(SubSeq(s, a + 2, a + 3)) * 60
         + Atoi(SubSeq(s, a + 5, a + 6))
    ELSE Atoi(SubSeq(s, 1, a)) * 60 + Atoi(SubSeq(s, a + 2, a + 3))

\* (\d+)\s*\+\s*(\d+) matching from position a
RoundsRepsAt(s, a) ==
    /\ s[a] \in Digits
    /\ LET c == SkipSpaces(s, RunEnd(s, a) + 1) IN
          /\ c <= Len(s) /\ s[c] = "+"
          /\ LET d == SkipSpaces(s, c + 1) IN d <= Len(s) /\ s[d] \in Digits

MatchesRoundsReps(s) == \E a \in 1..Len(s) : RoundsRepsAt(s, a)

\* the leftmost match: [Rounds, Reps]
RoundsRepsOf(s) ==
    LET a == CHOOSE x \in 1..Len(s) :
                 RoundsRepsAt(s, x) /\ \A y \in 1..(x - 1) : ~RoundsRepsAt(s, y)
        b == RunEnd(s, a)
        d == SkipSpaces(s, SkipSpaces(s, b + 1) + 1)
    IN  [Rounds |-> Atoi(SubSeq(s, a, b)), Reps |-> Atoi(SubSeq(s, d, RunEnd(s, d)))]

RoundsWords ==
    { << >>, <<"r","o","u","n","d">>, <<"r","o","u","n","d","s">>,
      <<"r","o","n","d","a">>, <<"r","o","n","d","a","s">> }

\* ^(\d+)\s*(?:rounds?|rondas?)?$
MatchesJustRounds(s) ==
    /\ s # << >> /\ s[1] \in Digits
    /\ SubSeq(s, SkipSpaces(s, RunEnd(s, 1) + 1), Len(s)) \in RoundsWords

WeightUnits == { << >>, <<"k","g">>, <<"l","b">>, <<"l","b","s">> }

\* the end of \d+(?:\.\d+)? from position 1
NumberEnd(s) ==
    LET b == RunEnd(s, 1) IN
    IF b + 2 <= Len(s) /\ s[b + 1] = "." /\ s[b + 2] \in Digits
    THEN RunEnd(s, b + 2) ELSE b

\* ^(\d+(?:\.\d+)?)\s*(?:kg|lbs?)?$
MatchesWeight(s) ==
    /\ s # << >> /\ s[1] \in Digits
    /\ SubSeq(s, SkipSpaces(s, NumberEnd(s) + 1), Len(s)) \in WeightUnits

\* strconv.ParseFloat of the matched number: its digits and the number of
\* digits after the point (value = digits / 10^scale)
WeightOf(s) ==
    LET b == RunEnd(s, 1)
        e == NumberEnd(s)
    IN  IF e = b THEN [digits |-> Atoi(SubSeq(s, 1, b)), scale |-> 0]
        ELSE [digits |-> Atoi(SubSeq(s, 1, b) \o SubSeq(s, b + 2, e)),
              scale |-> e - b - 1]

NoWeight == [digits |-> 0, scale |-> 0]

\* a WorkoutResult whose score fields are unset
\* (Time is a pointer: << >> is nil, <<d>> points to d seconds)
ZeroResult == [Time |-> << >>, Rounds |-> 0, Reps |-> 0, Weight |-> NoWeight]

\* a parseScore that tries the weight pattern before the bare rounds
parseScoreWeightFirst(text, res) ==
    LET s == TrimSpace(text) IN
    IF MatchesTime(s) THEN [res EXCEPT !.Time = <<TimeOf(s)>>]
    ELSE IF MatchesRoundsReps(s)
    THEN [res EXCEPT !.Rounds = RoundsRepsOf(s).Rounds, !.Reps = RoundsRepsOf(s).Reps]
    ELSE IF MatchesWeight(ToLower(s))
    THEN [res EXCEPT !.Weight = WeightOf(ToLower(s))]
    ELSE IF MatchesJustRounds(ToLower(s))
    THEN [res EXCEPT !.Rounds = Atoi(SubSeq(s, 1, RunEnd(s, 1)))]
    ELSE res

\* parseScore(score, result): the result after the call
parseScore(text, res) ==
    LET s == TrimSpace(text) IN
    IF MatchesTime(s) THEN [res EXCEPT !.Time = <<TimeOf(s)>>]
    ELSE IF MatchesRoundsReps(s)
    THEN [res EXCEPT !.Rounds = RoundsRepsOf(s).Rounds, !.Reps = RoundsRepsOf(s).Reps]
    ELSE IF MatchesJustRounds(ToLower(s))
    THEN [res EXCEPT !.Rounds = Atoi(SubSeq(s, 1, RunEnd(s, 1)))]
    ELSE IF MatchesWeight(ToLower(s))
    THEN [res EXCEPT !.Weight = WeightOf(ToLower(s))]
    ELSE res

\* the scores the model draws from: every short string over ScoreAlphabet,
\* and the scores below
ScoreAlphabet == {"1", "2", ":", "+", " ", ".", "k", "g"}

ScoreExamples ==
    { <<"2","1",":","3","4">>, <<"1","0","+","5">>, <<"2","0">>, <<"8","5","k","g">>,
      <<"1",":","0","2",":","0","3">>, <<"5"," ","r","o","u","n","d","s">>,
      <<"3"," ","R","o","n","d","a","s">>, <<"8","5",".","5"," ","l","b","s">>,
      <<"8","5","K","G">>, <<"7"," ","+"," ","1","2"," ","r","e","p","s">>,
      <<"d","n","f">> }

Scores == ScoreExamples \cup UNION {[1..n -> ScoreAlphabet] : n \in 0..MaxScoreLen}

\* the caller sets up a fresh result and calls parseScore(score, result)
ScoreParse ==
    /\ parsed = << >>
    /\ \E text \in Scores :
          /\ score' = text
          /\ parsed' = <<parseScore(text, ZeroResult)>>
    /\ UNCHANGED <<syncVars, fetchVars, tcxVars, nameVars, sectionVars, lapVars, descVars, batchVars, statusVars>>

NextScore == ScoreParse

SpecScore == InitGenerator /\ [][NextScore]_vars

\* ------------------------------------- source client: section titles
\* strings.ToUpper, and the folding of (?i), on the letters a..z
UpperOf(c) ==
    CASE c = "a" -> "A"
      [] c = "b" -> "B"
      [] c = "c" -> "C"
      [] c = "d" -> "D"
      [] c = "e" -> "E"
      [] c = "f" -> "F"
      [] c = "g" -> "G"
      [] c = "h" -> "H"
      [] c = "i" -> "I"
      [] c = "j" -> "J"
      [] c = "k" -> "K"
      [] c = "l" -> "L"
      [] c = "m" -> "M"
      [] c = "n" -> "N"
      [] c = "o" -> "O"
      [] c = "p" -> "P"
      [] c = "q" -> "Q"
      [] c = "r" -> "R"
      [] c = "s" -> "S"
      [] c = "t" -> "T"
      [] c = "u" -> "U"
      [] c = "v" -> "V"
      [] c = "w" -> "W"
      [] c = "x" -> "X"
      [] c = "y" -> "Y"
      [] c = "z" -> "Z"
      [] OTHER -> c

ToUpper(s) == [k \in 1..Len(s) |-> UpperOf(s[k])]

\* strconv.Itoa / %d for n >= 0
RECURSIVE Itoa(_)
Itoa(n) ==
    LET last == <<CHOOSE c \in Digits : DigitVal(c) = n % 10>> IN
    IF n < 10 THEN last ELSE Itoa(n \div 10) \o last

\* strings.ReplaceAll(notes, "<br>", "\n")
RECURSIVE ReplaceBr(_)
ReplaceBr(s) ==
    IF s = << >> THEN << >>
    ELSE IF Len(s) >= 4 /\ SubSeq(s, 1, 4) = <<"<", "b", "r", ">">>
    THEN <<"\n">> \o ReplaceBr(SubSeq(s, 5, Len(s)))
    ELSE <<Head(s)>> \o ReplaceBr(Tail(s))

\* the upper-case text lit matches at position a, letters folded: (?i)(LIT)
MatchLit(s, a, lit) ==
    /\ a >= 1 /\ a + Len(lit) - 1 <= Len(s)
    /\ \A k \in 1..Len(lit) : UpperOf(s[a + k - 1]) = lit[k]

ContainsFold(s, lit) == \E a \in 1..Len(s) : MatchLit(s, a, lit)

\* the text of the leftmost match of (?i)(LIT)
FoldMatch(s, lit) ==
    LET a == CHOOSE x \in 1..Len(s) :
                 MatchLit(s, x, lit) /\ \A y \in 1..(x - 1) : ~MatchLit(s, y, lit)
    IN  SubSeq(s, a, a + Len(lit) - 1)

\* (?i)(12\s+DAYS?\s+OF\s+CHRISTMAS) matching from position a: the position
\* after the match, 0 if there is none
ChristmasEnd(s, a) ==
    IF ~MatchLit(s, a, <<"1", "2">>) THEN 0
    ELSE LET c == SkipSpaces(s, a + 2) IN
    IF ~(c > a + 2 /\ MatchLit(s, c, <<"D", "A", "Y">>)) THEN 0
    ELSE LET d == IF MatchLit(s, c + 3, <<"S">>) THEN c + 4 ELSE c + 3
             e == SkipSpaces(s, d) IN
    IF ~(e > d /\ MatchLit(s, e, <<"O", "F">>)) THEN 0
    ELSE LET g == SkipSpaces(s, e + 2) IN
    IF g > e + 2 /\ MatchLit(s, g, <<"C", "H", "R", "I", "S", "T", "M", "A", "S">>) THEN g + 9 ELSE 0

MatchesChristmas(s) == \E a \in 1..Len(s) : ChristmasEnd(s, a) > 0

ChristmasMatch(s) ==
    LET a == CHOOSE x \in 1..Len(s) :
                 ChristmasEnd(s, x) > 0 /\ \A y \in 1..(x - 1) : ChristmasEnd(s, y) = 0
    IN  SubSeq(s, a, ChristmasEnd(s, a) - 1)

\* namedPatterns after the first: the benchmark names, in the order tried
BenchmarkNames ==
    << <<"M", "U", "R", "P", "H">>,
       <<"F", "R", "A", "N">>,
       <<"H", "E", "L", "E", "N">>,
       <<"G", "R", "A", "C", "E">>,
       <<"C", "I", "N", "D", "Y">>,
       <<"A", "N", "N", "I", "E">>,
       <<"D", "I", "A", "N", "E">>,
       <<"E", "L", "I", "Z", "A", "B", "E", "T", "H">>,
       <<"J", "A", "C", "K", "I", "E">>,
       <<"K", "A", "R", "E", "N">>,
       <<"M", "A", "R", "Y">>,
       <<"I", "S", "A", "B", "E", "L">>,
       <<"N", "A", "N", "C", "Y">> >>

\* typeNames
TypeNames ==
    << <<"S", "t", "r", "e", "n", "g", "t", "h">>,
       <<"A", "M", "R", "A", "P">>,
       <<"E", "M", "O", "M">>,
       <<"T", "a", "b", "a", "t", "a">>,
       <<"F", "o", "r", " ", "T", "i", "m", "e">>,
       <<"M", "a", "x", " ", "R", "e", "p", "s">>,
       <<"M", "a", "x", " ", "W", "e", "i", "g", "h", "t">>,
       <<"C", "h", "i", "p", "p", "e", "r">>,
       <<"R", "F", "T">>,
       <<"L", "a", "d", "d", "e", "r">>,
       <<"F", "o", "r", " ", "T", "i", "m", "e">>,
       <<"Y", "G", "I", "G">> >>

\* the types whose label carries the time cap
TimedTypes == {2, 5, 11}

\* the title made from the section type and the time cap
TypeTitle(sectionType, timecap) ==
    IF sectionType \in DOMAIN TypeNames
    THEN IF timecap > 0 /\ sectionType \in TimedTypes
         THEN Itoa(timecap) \o <<"'", " ">> \o TypeNames[sectionType]
         ELSE TypeNames[sectionType]
    ELSE IF timecap > 0 THEN Itoa(timecap) \o <<" ", "m", "i", "n", " ", "W", "O", "D">>
    ELSE <<"W", "O", "D">>

\* the title of the first named pattern found in the notes, << >> if none
NamedTitle(notes) ==
    IF notes = << >> THEN << >>
    ELSE LET cleanNotes == TrimSpace(ReplaceBr(notes)) IN
         IF MatchesChristmas(cleanNotes) THEN ToUpper(ChristmasMatch(cleanNotes))
         ELSE IF \E k \in DOMAIN BenchmarkNames : ContainsFold(cleanNotes, BenchmarkNames[k])
         THEN LET k == CHOOSE x \in DOMAIN BenchmarkNames :
                          /\ ContainsFold(cleanNotes, BenchmarkNames[x])
                          /\ \A y \in 1..(x - 1) : ~ContainsFold(cleanNotes, BenchmarkNames[y])
              IN  ToUpper(FoldMatch(cleanNotes, BenchmarkNames[k]))
         ELSE << >>

\* a parseSectionTitle that looks at the section type before the notes
parseSectionTitleTypeFirst(notes, sectionType, timecap) ==
    IF sectionType \in DOMAIN TypeNames THEN TypeTitle(sectionType, timecap)
    ELSE IF NamedTitle(notes) # << >> THEN NamedTitle(notes)
    ELSE TypeTitle(sectionType, timecap)

\* parseSectionTitle(notes, sectionType, timecap)
parseSectionTitle(notes, sectionType, timecap) ==
    IF NamedTitle(notes) # << >> THEN NamedTitle(notes)
    ELSE TypeTitle(sectionType, timecap)

\* what parseEMOMName can return: "" (keep the title) or a name it built
EMOMNames == { << >>, <<"E", "2", "M", "O", "2", "M">> }

\* the titles and notes a response carries in the model
SectionTitles == { << >>, <<"m", "u", "r", "p", "h">>, <<"E", "M", "O", "M">>, <<"W", "O", "D", " ", "A">> }

SectionNotes ==
    { << >>,
      <<"m", "u", "r", "p", "h">>,
      <<"M", "u", "r", "p", "h">>,
      <<"d", "o", " ", "M", "U", "R", "P", "H", " ", "n", "o", "w">>,
      <<"f", "r", "a", "n", " ", "t", "h", "e", "n", " ", "m", "u", "r", "p", "h">>,
      <<"m", "u", "r", "p", "h", "y", "'", "s", " ", "l", "a", "w">>,
      <<"5", " ", "r", "o", "u", "n", "d", "s", " ", "o", "f", " ", "f", "u", "n">>,
      <<"1", "2", " ", "d", "a", "y", "s", " ", "o", "f", " ", "c", "h", "r", "i", "s", "t", "m", "a", "s">>,
      <<"1", "2", " ", "D", "a", "y", " ", " ", "o", "f", " ", "C", "h", "r", "i", "s", "t", "m", "a", "s", ",", " ", "m", "u", "r", "p", "h">>,
      <<"1", "2", " ", "d", "a", "y", "s", "<", "b", "r", ">", "o", "f", " ", "c", "h", "r", "i", "s", "t", "m", "a", "s">>,
      <<"h", "e", "l", "e", "n", "<", "b", "r", " ", "/", ">">>,
      <<"T", "C", " ", "4", "0", "'">>,
      <<" ">> }

\* parseActivityResponse on one element of "tw": the title read from the
\* response, the EMOM renaming, and the fallback for an empty title
SectionParse ==
    /\ titled = << >>
    /\ \E title \in SectionTitles, notes \in SectionNotes,
          t \in 0..MaxSectionType, tc \in 0..MaxTimeCap, better \in EMOMNames :
          LET renamed == IF t = 3 /\ title = <<"E", "M", "O", "M">> /\ notes # << >> /\ better # << >>
                         THEN better ELSE title
          IN  /\ section' = [Title |-> title, Notes |-> notes, Type |-> t, TimeCap |-> tc]
              /\ titled' = << IF renamed = << >> THEN parseSectionTitle(notes, t, tc)
                              ELSE renamed >>
    /\ UNCHANGED <<syncVars, fetchVars, tcxVars, nameVars, scoreVars, lapVars, descVars, batchVars, statusVars>>

NextSection == SectionParse

SpecSection == InitGenerator /\ [][NextSection]_vars

\* ----------------------------------------- TCX generator: workoutToTCX
\* NewGenerator: 60 * time.Minute, in seconds
DefaultDuration == 3600

\* NewGenerator(outputDir, defaultDuration)
NewGenerator(defaultDuration) ==
    [defaultDuration |-> IF defaultDuration = 0 THEN DefaultDuration ELSE defaultDuration]

\* the default durations of the configuration (0: not configured), the
\* result times of a workout (a pointer: << >> is nil)
ConfiguredDefaults == {0, 2700}
ResultTimes == { << >>, <<0>>, <<1200>> }

\* workoutToTCX: the duration of the lap and of the trackpoint series
LapDuration(g, w) == IF w.Duration > 0 THEN w.Duration ELSE g.defaultDuration

\* NewGenerator, then workoutToTCX on one workout
WorkoutToTCX ==
    /\ lap = << >> /\ track = << >>
    /\ \E cfg \in ConfiguredDefaults, wd \in 0..MaxDuration, rt \in ResultTimes :
          LET g == NewGenerator(cfg)
              w == [Duration |-> wd, ResultTime |-> rt]
          IN  /\ generator' = g
              /\ workout' = w
              /\ duration' = LapDuration(g, w)
              /\ lap' = <<[TotalTimeSeconds |-> LapDuration(g, w)]>>
              /\ track' = generateTrackpointsWithHR(LapDuration(g, w))
    /\ UNCHANGED <<syncVars, fetchVars, nameVars, scoreVars, sectionVars, descVars, batchVars, statusVars>>

NextLap == WorkoutToTCX

SpecLap == InitGenerator /\ [][NextLap]_vars

\* ------------------------------------------- workout: FormatDescription
\* isPlaceholderExercise
Placeholders == { <<"D", "e", "s", "c", "a", "n", "s", "o", " ", "R", "e", "s", "t">>, <<"R", "e", "s", "t">>, <<"D", "e", "s", "c", "a", "n", "s", "o">> }

isPlaceholderExercise(exName) ==
    \E p \in Placeholders : ToLower(p) = ToLower(exName)

\* A line of the description: what it is, the section block it stands in
\* (the loop index i, -1 outside the sections loop) and, for an exercise
\* line, the position of the exercise in w.Exercises.
Line(kind, sec, ex) == [kind |-> kind, section |-> sec, ex |-> ex]

\* the exercise lines of section i (0-based): `ex.SectionIndex == i &&
\* !isPlaceholderExercise(ex.Name)`
RECURSIVE SectionExercises(_, _, _)
SectionExercises(exs, si, k) ==
    IF k > Len(exs) THEN << >>
    ELSE (IF exs[k].SectionIndex = si /\ ~isPlaceholderExercise(exs[k].Name)
          THEN <<Line("exercise", si, k)>> ELSE << >>)
         \o SectionExercises(exs, si, k + 1)

\* the result lines of a section
SectionResult(sec, si) ==
    (IF sec.RoundsCompleted > 0 /\ sec.RepsAchieved > 0 THEN <<Line("rounds+reps", si, 0)>>
     ELSE IF sec.RoundsCompleted > 0 THEN <<Line("sets", si, 0)>>
     ELSE IF sec.RepsAchieved > 0 THEN <<Line("reps", si, 0)>>
     ELSE << >>)
    \o (IF sec.RX THEN <<Line("rx", si, 0)>> ELSE << >>)

\* the block of section i (0-based), sections[i + 1] in the model
SectionBlock(w, si) ==
    LET sec == w.Sections[si + 1] IN
    (IF si > 0
     THEN <<Line("blank", si, 0), Line("separator", si, 0), Line("blank", si, 0)>>
     ELSE << >>)
    \o <<Line("header", si, 0)>>
    \o (IF sec.Notes THEN <<Line("notes", si, 0)>> ELSE << >>)
    \o <<Line("blank", si, 0)>>
    \o SectionExercises(w.Exercises, si, 1)
    \o <<Line("blank", si, 0)>>
    \o SectionResult(sec, si)

RECURSIVE SectionBlocks(_, _)
SectionBlocks(w, si) ==
    IF si >= Len(w.Sections) THEN << >>
    ELSE SectionBlock(w, si) \o SectionBlocks(w, si + 1)

\* `if len(w.Sections) == 0 && len(w.Exercises) > 0`: the exercises directly
Unsectioned(w) ==
    IF Len(w.Sections) = 0 /\ Len(w.Exercises) > 0
    THEN <<Line("header", -1, 0), Line("blank", -1, 0)>>
         \o [k \in 1..Len(w.Exercises) |-> Line("exercise", -1, k)]
    ELSE << >>

\* `if w.Result != nil`: the overall result
OverallResult(w) ==
    IF w.Result = << >> THEN << >>
    ELSE LET r == w.Result[1] IN
         <<Line("blank", -1, 0), Line("separator", -1, 0), Line("blank", -1, 0)>>
         \o (IF r.Time # << >> THEN <<Line("time", -1, 0)>> ELSE << >>)
         \o (IF r.Rounds > 0
             THEN IF r.Reps > 0 THEN <<Line("rounds+reps", -1, 0)>>
                  ELSE <<Line("rounds", -1, 0)>>
             ELSE << >>)
         \o (IF r.Weight > 0 THEN <<Line("weight", -1, 0)>> ELSE << >>)
         \o (IF r.RxPlus THEN <<Line("rx+", -1, 0)>>
             ELSE IF ~r.Scaled THEN <<Line("rx", -1, 0)>>
             ELSE <<Line("scaled", -1, 0)>>)

\* Workout.FormatDescription: the lines it joins
FormatDescription(w) == SectionBlocks(w, 0) \o Unsectioned(w) \o OverallResult(w)

\* the workouts of the model
SectionKinds ==
    { [Notes |-> FALSE, RoundsCompleted |-> 0, RepsAchieved |-> 0, RX |-> FALSE],
      [Notes |-> TRUE, RoundsCompleted |-> 3, RepsAchieved |-> 5, RX |-> TRUE],
      [Notes |-> FALSE, RoundsCompleted |-> 3, RepsAchieved |-> 0, RX |-> FALSE] }

ExerciseNames == { <<"T", "h", "r", "u", "s", "t", "e", "r">>, <<"R", "E", "S", "T">>, <<"D", "e", "s", "c", "a", "n", "s", "o", " ", "R", "e", "s", "t">> }

\* tipoWOD is a raw integer: positions of the sections list and values
\* outside it
SectionIndexes == -1..MaxSections

ExerciseKinds == [Name : ExerciseNames, SectionIndex : SectionIndexes]

OverallResults ==
    { << >>,
      <<[Time |-> <<1294>>, Rounds |-> 0, Reps |-> 0, Weight |-> 0,
         RxPlus |-> FALSE, Scaled |-> FALSE]>>,
      <<[Time |-> << >>, Rounds |-> 10, Reps |-> 5, Weight |-> 85,
         RxPlus |-> FALSE, Scaled |-> TRUE]>> }

\* activityToWorkout: workout.Description = workout.FormatDescription()
Describe ==
    /\ lines = << >>
    /\ \E secs \in UNION {[1..n -> SectionKinds] : n \in 0..MaxSections},
          exs \in UNION {[1..n -> ExerciseKinds] : n \in 0..MaxExercises},
          r \in OverallResults :
          LET w == [Sections |-> secs, Exercises |-> exs, Result |-> r] IN
          /\ described' = w
          /\ lines' = <<FormatDescription(w)>>
    /\ UNCHANGED <<syncVars, fetchVars, tcxVars, nameVars, scoreVars, sectionVars, lapVars, batchVars, statusVars>>

NextDescribe == Describe

SpecDescribe == InitGenerator /\ [][NextDescribe]_vars

\* ------------------------------------------- TCX generator: GenerateAll
\* strings.ReplaceAll(workout.ClassTime, ":", "")
RECURSIVE RemoveColons(_)
RemoveColons(s) ==
    IF s = << >> THEN << >>
    ELSE (IF Head(s) = ":" THEN << >> ELSE <<Head(s)>>) \o RemoveColons(Tail(s))

\* generateFilename(workout): the parts of "<date>_<time>_<name>.tcx"
FilenameOf(w) ==
    [date |-> w.Date,
     time |-> IF RemoveColons(w.ClassTime) = << >> THEN <<"0", "0", "0", "0">>
              ELSE RemoveColons(w.ClassTime),
     name |-> generateFilename(w.Name)]

\* the workouts of a batch
BatchDates == {"2025-01-08", "2025-01-09"}
BatchClassTimes == { << >>, <<"0", "7", ":", "0", "0">> }
BatchNames == { <<"W", "O", "D", " ", "A">>, <<"w", "o", "d", "-", "a">>, <<"F", "r", "a", "n">> }

BatchWorkouts ==
    [ID : Workouts, Date : BatchDates, ClassTime : BatchClassTimes, Name : BatchNames]

\* GenerateAll(workouts) is called
GenerateAllStart ==
    /\ gi = 0
    /\ \E ws \in UNION {[1..n -> BatchWorkouts] : n \in 0..MaxBatch} : batch' = ws
    /\ gi' = 1
    /\ UNCHANGED <<disk, files>>
    /\ UNCHANGED <<syncVars, fetchVars, tcxVars, nameVars, scoreVars, sectionVars,
                   lapVars, descVars, statusVars>>

\* one round of GenerateAll's loop: Generate(&workouts[i]) writes the file
\* (replacing a file of that path) and its path is appended, or it fails and
\* the workout is skipped
GenerateStep ==
    /\ gi >= 1 /\ gi <= Len(batch)
    /\ LET w == batch[gi]
           path == FilenameOf(w)
       IN  \/ /\ disk' = {f \in disk : f.path # path} \cup {[path |-> path, content |-> w.ID]}
              /\ files' = Append(files, [path |-> path, for |-> w.ID])
           \/ UNCHANGED <<disk, files>>
    /\ gi' = gi + 1
    /\ UNCHANGED batch
    /\ UNCHANGED <<syncVars, fetchVars, tcxVars, nameVars, scoreVars, sectionVars,
                   lapVars, descVars, statusVars>>

NextBatch ==
    \/ GenerateAllStart
    \/ GenerateStep

SpecBatch == InitGenerator /\ [][NextBatch]_vars

\* ------------------------------- add-on: scheduler sync beside the webhook
\* run_sync of the add-on's start script: `aimharder-sync sync --days N
\* [--dry-run]`, a process of its own, no --force and the default platform;
\* one round of the scheduler's loop
ScheduledSync ==
    /\ run = 0
    /\ CliStart
    /\ force' = FALSE
    /\ platforms' = <<"strava">>

\* the scheduler's CLI process and the webhook server (started in the
\* background by the same script) share the history file and Strava
NextOverlap ==
    \/ ScheduledSync
    \/ CliPrepare
    \/ CliPlatform
    \/ StravaUpload
    \/ StravaWait
    \/ CliSave
    \/ \E h \in Requests :
          \/ WhRequest(h)
          \/ WhPrepare(h)
          \/ WhUpload(h)
          \/ WhWait(h)
          \/ WhSetLastSync(h)
          \/ WhRespond(h)

SpecOverlap == Init /\ [][NextOverlap]_vars

\* ------------------------------------------------- webhook: GET /status
\* handleStatus reads s.lastResult, s.lastSync and s.lastResult again with no
\* lock, while handleSync assigns them under syncMutex: a read is ordered
\* after none of those assignments and takes the value of any of them made so
\* far, or the value NewWebhookServer left.
\* the requests whose handleSync has assigned s.lastSync / s.lastResult
AssignedSync ==
    { h \in Requests : req[h].pc = "ret2" \/ (req[h].pc = "done" /\ req[h].code \in {200, 500}) }
AssignedResult ==
    { h \in Requests : req[h].pc = "done" /\ req[h].code \in {200, 500} }

LastSyncReads == {0} \cup AssignedSync
LastResultReads ==
    {<< >>} \cup { <<[of |-> h, result |-> req[h].result]>> : h \in AssignedResult }

\* `if s.lastResult == nil { ...no_sync_yet...; return }`
StatusCheck ==
    /\ spc = "idle"
    /\ \E r \in LastResultReads :
          IF r = << >>
          THEN /\ reply' = <<[status |-> "no_sync_yet", last_sync |-> 0, result |-> << >>]>>
               /\ spc' = "done"
          ELSE /\ spc' = "sync"
               /\ UNCHANGED reply
    /\ UNCHANGED stSync
    /\ UNCHANGED <<syncVars, fetchVars, tcxVars, nameVars, scoreVars, sectionVars,
                   lapVars, descVars, batchVars>>

\* "last_sync": s.lastSync
StatusReadSync ==
    /\ spc = "sync"
    /\ \E t \in LastSyncReads : stSync' = t
    /\ spc' = "result"
    /\ UNCHANGED reply
    /\ UNCHANGED <<syncVars, fetchVars, tcxVars, nameVars, scoreVars, sectionVars,
                   lapVars, descVars, batchVars>>

\* "result": s.lastResult, and the response
StatusReadResult ==
    /\ spc = "result"
    /\ \E r \in LastResultReads :
          reply' = <<[status |-> "ok", last_sync |-> stSync, result |-> r]>>
    /\ spc' = "done"
    /\ UNCHANGED stSync
    /\ UNCHANGED <<syncVars, fetchVars, tcxVars, nameVars, scoreVars, sectionVars,
                   lapVars, descVars, batchVars>>

\* the sync requests and one GET /status
NextStatus ==
    \/ \E h \in Requests :
          \/ WhRequest(h)
          \/ WhPrepare(h)
          \/ WhUpload(h)
          \/ WhWait(h)
          \/ WhSetLastSync(h)
          \/ WhRespond(h)
    \/ StatusCheck
    \/ StatusReadSync
    \/ StatusReadResult

SpecStatus == Init /\ [][NextStatus]_vars

\* =================================================================== claims
\* vocabulary of the claims

\* h holds a success record for the pair (w, p)
HasSuccess(h, w, p) ==
    \E n \in 1..Len(h[w]) : h[w][n].platform = p /\ h[w][n].success

\* the records a run appended to workout w's list since it loaded the history
Appended(now, before, w) == SubSeq(now[w], Len(before[w]) + 1, Len(now[w]))

\* Upload invocations of the CLI run / of request h
CliUploads == { u \in uploads : u.by = 0 }
ReqUploads(h) == { u \in uploads : u.by = h }

\* request h's batch has left the upload loop
BatchEnded(h) == req[h].pc \in {"ret", "ret2", "done"} /\ req[h].existing.ok

\* C1: in a batch whose existence query returned a list, every pending
\* workout whose ID is the external id of an entry of that list gets a
\* success record with reason already_exists and is never uploaded.
C1_DuplicateShortCircuit ==
    \A h \in Requests :
        BatchEnded(h) =>
            \A k \in 1..Len(req[h].toSync) :
                LET w == req[h].toSync[k] IN
                (\E a \in req[h].existing.acts : a.ExternalID = w) =>
                    /\ \E n \in 1..Len(Appended(req[h].history, req[h].loaded, w)) :
                          LET st == Appended(req[h].history, req[h].loaded, w)[n] IN
                          st.success /\ st.error_message = TxtAlreadyExists
                    /\ \A u \in ReqUploads(h) : u.workout # w

\* C2: an upload whose processing status reports a duplicate marker is
\* recorded as a success: no recorded status carrying the platform's
\* duplicate marker has success = FALSE.
C2_DuplicateIsSuccess ==
    /\ \A w \in Workouts : \A n \in 1..Len(history[w]) :
          Contains(history[w][n].error_message, "duplicate") => history[w][n].success
    /\ \A h \in Requests : \A w \in Workouts : \A n \in 1..Len(req[h].history[w]) :
          Contains(req[h].history[w][n].error_message, "duplicate")
              => req[h].history[w][n].success

\* C3: in a run without --force, Upload is never invoked for a pair
\* (workout, platform) for which the history loaded at run start holds a
\* success record.
C3_NoUploadForSyncedPair ==
    ~force => \A u \in CliUploads : ~HasSuccess(loaded, u.workout, u.platform)

\* the history loaded by the run holds a success record for w on every
\* target platform of the run
SyncedEverywhere(w) ==
    \A k \in 1..Len(platforms) : HasSuccess(loaded, w, platforms[k])

\* the second of two identical runs without --force and --dry-run
SecondRun == run = Len(RunOrder) /\ repeat /\ ~force /\ ~dryRun

InBatch == {h \in Requests : req[h].pc \in {"run", "loop", "wait", "ret", "ret2"}}

\* a POST /sync arriving while a batch is in progress is answered in the very
\* step of its arrival, with a conflict (or, without the token, with 401),
\* and it starts nothing: no upload, no history write, no batch
ConflictAtOnce ==
    \A h \in Requests :
        (req[h].pc = "idle" /\ InBatch # {} /\ req'[h] # req[h]) =>
            /\ req'[h].pc = "done" /\ req'[h].code \in {401, 409}
            /\ req'[h].result = NewSyncResult
            /\ uploads' = uploads /\ file' = file /\ remote' = remote

\* C5: at most one webhook sync batch is in progress at any time; a
\* POST /sync arriving while a batch is in progress gets an immediate
\* conflict response and does not start a second batch.
C5_SingleFlight ==
    /\ [](Cardinality(InBatch) <= 1 /\ (syncMutex <=> InBatch # {}))
    /\ [][ConflictAtOnce]_vars

\* one request is uploading while another has been refused with 409
C5_Witness ==
    \E h1, h2 \in Requests :
        /\ req[h1].pc \in {"loop", "wait"} /\ req[h1].i > 1
        /\ req[h2].pc = "done" /\ req[h2].code = 409

\* the in-memory history gains exactly one record, under its own workout id
OneRecordAppended ==
    \E w \in Workouts :
        /\ Len(history'[w]) = Len(history[w]) + 1
        /\ IsPrefix(history[w], history'[w])
        /\ history'[w][Len(history'[w])].workout_id = w
        /\ \A v \in Workouts \ {w} : history'[v] = history[v]

AppendOnlyStep ==
    /\ \A w \in Workouts : IsPrefix(file[w], file'[w])
    /\ (pc = "prepare" /\ history' # history) => history' = file
    /\ pc \in {"platforms", "strava", "strava_wait", "garmin", "save"} =>
           (history' = history \/ OneRecordAppended)

\* C6: recording an attempt only appends to the history: the records present
\* before are an unchanged prefix of the list afterwards, exactly one record
\* is added under the key equal to its own workout_id, no other workout's
\* list changes, and no step of a sync run modifies, reorders or removes a
\* record of the loaded history or of the history file.
C6_AppendOnly == [][AppendOnlyStep]_vars

\* a second run has appended to a list that already held a record, and saved
C6_Witness ==
    /\ run = Len(RunOrder) /\ pc = "done" /\ result = "nil" /\ file = history
    /\ \E w \in Workouts :
          Len(loaded[w]) >= 1 /\ Len(history[w]) > Len(loaded[w])

\* C7: once the cancellation signal is raised during a CLI sync run, no
\* further upload is started on any platform: at the head of either upload
\* loop and between platforms, Upload is not invoked and no SyncStatus is
\* appended.
C7_NoUploadAfterCancel ==
    [][(cancelled /\ pc \in {"platforms", "strava", "garmin"}) =>
           (uploads' = uploads /\ history' = history)]_vars

\* C8: the records appended before the cancellation signal was raised are
\* still present in the persisted history after the cancelled run exits,
\* whichever platform was being processed.
C8_RecordsSurviveCancel ==
    (pc = "done" /\ cancelled) =>
        \A w \in Workouts : IsPrefix(atCancel[w], file[w])

\* C9: when encoding fails for one workout of a batch, every workout that is
\* uploaded is uploaded with the file generated from that same workout.
C9_OwnFile ==
    \A u \in CliUploads : u.file = TcxFile(u.workout)

\* a step in which an upload fails: a network error, a rejection other than
\* a duplicate, a failed status check or a timeout
UploadFails ==
    /\ pc \in {"strava", "strava_wait", "garmin"}
    /\ faults' = faults + 1 /\ cancelled' = cancelled

FailureTexts == {TxtNetwork, TxtTimedOut, UploadFailed(TxtRejected)}

FailureRecorded ==
    LET w == toSync[i]
        p == platforms[pidx]
        n == Len(history'[w])
    IN  /\ n = Len(history[w]) + 1
        /\ IsPrefix(history[w], history'[w])
        /\ history'[w][n].workout_id = w
        /\ history'[w][n].platform = p
        /\ history'[w][n].success = FALSE
        /\ history'[w][n].error_message \in FailureTexts
        /\ \A v \in Workouts \ {w} : history'[v] = history[v]
        /\ i' = i + 1 /\ pc' = p /\ pidx' = pidx
        /\ toSync' = toSync /\ tcxFiles' = tcxFiles /\ result' = result

\* C10: when Upload for a workout fails with a network error or a
\* non-duplicate rejection, exactly one SyncStatus with success=false and
\* the error text is appended for that (workout, platform) pair, and the run
\* goes on with the next workout in source order instead of aborting.
C10_FailureRecordedAndContinue == [][UploadFails => FailureRecorded]_vars

\* the first workout of the queue failed and was recorded, and the second
\* was then uploaded and recorded as a success
C10_Witness ==
    /\ pc \in {"strava", "garmin"} /\ Len(toSync) >= 2 /\ i = 3
    /\ LET h1 == history[toSync[1]] IN
          /\ h1 # << >>
          /\ h1[Len(h1)].platform = pc
          /\ ~h1[Len(h1)].success
          /\ h1[Len(h1)].error_message \in FailureTexts
    /\ \E u \in CliUploads : u.workout = toSync[2] /\ u.platform = pc
    /\ HasSuccess(history, toSync[2], pc)

\* a step of syncToStrava in which Strava reports neither an activity ID nor
\* an error before the deadline
NeverReports == pc = "strava_wait" /\ StravaWaitWith([kind |-> "never"])

TimedOutRecorded ==
    LET w == toSync[i]
        n == Len(history'[w])
        r == WaitForUpload([kind |-> "never"])
    IN  /\ r.elapsed >= UploadTimeout /\ r.elapsed < UploadTimeout + PollInterval
        /\ n = Len(history[w]) + 1
        /\ IsPrefix(history[w], history'[w])
        /\ history'[w][n].platform = "strava"
        /\ history'[w][n].success = FALSE
        /\ Contains(history'[w][n].error_message, "timed")
        /\ history'[w][n].error_message \notin {TxtNetwork, TxtCanceled, UploadFailed(TxtRejected)}
        /\ i' = i + 1 /\ pc' = "strava" /\ pidx' = pidx /\ result' = result

C12_AuthFailureFailsRun ==
    /\ \A u \in CliUploads : u.platform \notin authFailed
    /\ (pc = "done" /\ authFailed # {}) => result = "error"

\* C13: fetchAllActivities terminates after finitely many page requests for
\* every behaviour of the source, including one that keeps returning
\* non-empty pages with arbitrary non-zero watermarks.
C13_FetchTerminates == <>(fpc = "done")

\* the first page request of a call, answered with a non-empty page whose
\* watermark does not advance the cursor that was sent
FirstPageNonAdvancing(e) ==
    /\ requests = 0
    /\ PageItems(e) # << >>
    /\ FetchPageWith([kind |-> "page", elements |-> e, lastLoaded |-> lastLoaded])

C15_WebhookDryRun ==
    \A h \in Requests :
        req[h].dryRun =>
            /\ ReqUploads(h) = {}
            /\ req[h].history = req[h].loaded

\* C16: with --dry-run set, a CLI sync run never invokes Upload on any
\* platform and leaves the sync history unchanged: no SyncStatus is recorded
\* and the history file is not written.
C16_CliDryRun ==
    /\ [](dryRun => (CliUploads = {} /\ history = loaded))
    /\ [][dryRun => file' = file]_vars

\* a dry run that had workouts to sync, generated their files and returned
C16_Witness ==
    /\ dryRun /\ pc = "done" /\ result = "nil"
    /\ toSync # << >> /\ tcxFiles # << >>

\* clamp(n, lo, hi)
Clamp(n, lo, hi) == IF n < lo THEN lo ELSE IF n > hi THEN hi ELSE n

\* C17: for every duration D >= 0, the synthesized trackpoint series has
\* exactly clamp(D/30, 4, 120) points, and its last timestamp equals
\* start + D to within one 30-second step.
C17_PointCountAndEnd ==
    track # << >> =>
        /\ Len(track) = Clamp(duration \div 30, 4, 120)
        /\ track[Len(track)].Time >= duration - 30
        /\ track[Len(track)].Time <= duration + 30

\* C18: every heart-rate value in the synthesized trackpoint series lies in
\* [100, 185], for any duration >= 0 and in every phase.
C18_HeartRateBounds ==
    \A k \in 1..Len(track) :
        track[k].HeartRateBpm >= 100 /\ track[k].HeartRateBpm <= 185

\* a series with a warm-up, a working and a cool-down point
C18_Witness ==
    /\ duration >= 1200
    /\ \E a, b, c \in 1..Len(track) :
          /\ track[a].Time < 300
          /\ track[b].Time >= 300 /\ track[b].Time <= duration - 300
          /\ track[c].Time >= 300 /\ track[c].Time > duration - 300

\* C19: for any workout name, including names containing / \ : * ? " < > |
\* and spaces, the slug portion of the generated filename contains none of
\* those characters, contains no two consecutive hyphens, and is at most 50
\* characters long.
C19_SlugIsClean ==
    /\ \A k \in 1..Len(filename) :
          filename[k] \notin {"/", "\\", ":", "*", "?", "\"", "<", ">", "|", " "}
    /\ \A k \in 1..(Len(filename) - 1) :
          ~(filename[k] = "-" /\ filename[k + 1] = "-")
    /\ Len(filename) <= 50

\* a name of more than 50 characters with forbidden characters and an
\* upper-case letter, and its slug cut at 50
C19_Witness ==
    /\ Len(name) > 50 /\ Len(filename) = 50
    /\ \E j, k \in 1..Len(name) :
          name[j] \in {"/", "\\", ":", "*", "?", "\"", "<", ">", "|", " "} /\ name[k] = "A"

\* the fields of r that differ from an untouched result
FieldsSet(r) == {f \in {"Time", "Rounds", "Reps", "Weight"} : r[f] # ZeroResult[f]}

\* C20: parseScore tries its patterns in the fixed order time, rounds+reps,
\* bare integer rounds, bare numeric weight, and the first match wins: a
\* score matching an earlier pattern never sets a later pattern's field;
\* "21:34" gives time 21m34s, "10+5" rounds=10 reps=5, "20" rounds=20 and
\* "85kg" weight=85; a score matching none leaves all parsed fields untouched.
C20_FirstMatchWins ==
    parsed # << >> =>
        LET s == TrimSpace(score)
            res == parsed[1]
        IN
        /\ MatchesTime(s) => (res.Time # << >> /\ FieldsSet(res) = {"Time"})
        /\ (~MatchesTime(s) /\ MatchesRoundsReps(s)) =>
               FieldsSet(res) \subseteq {"Rounds", "Reps"}
        /\ (~MatchesTime(s) /\ ~MatchesRoundsReps(s) /\ MatchesJustRounds(ToLower(s))) =>
               FieldsSet(res) \subseteq {"Rounds"}
        /\ (~MatchesTime(s) /\ ~MatchesRoundsReps(s) /\ ~MatchesJustRounds(ToLower(s))
              /\ MatchesWeight(ToLower(s))) =>
               FieldsSet(res) \subseteq {"Weight"}
        /\ (~MatchesTime(s) /\ ~MatchesRoundsReps(s) /\ ~MatchesJustRounds(ToLower(s))
              /\ ~MatchesWeight(ToLower(s))) =>
               res = ZeroResult
        /\ score = <<"2","1",":","3","4">> =>
               res = [ZeroResult EXCEPT !.Time = <<21 * 60 + 34>>]
        /\ score = <<"1","0","+","5">> =>
               res = [ZeroResult EXCEPT !.Rounds = 10, !.Reps = 5]
        /\ score = <<"2","0">> => res = [ZeroResult EXCEPT !.Rounds = 20]
        /\ score = <<"8","5","k","g">> =>
               res = [ZeroResult EXCEPT !.Weight = [digits |-> 85, scale |-> 0]]

\* "20" matches both the bare rounds and the weight pattern; it was parsed
\* as rounds
C20_Witness ==
    /\ score = <<"2","0">>
    /\ MatchesJustRounds(score) /\ MatchesWeight(score)
    /\ parsed # << >> /\ parsed[1].Rounds = 20

\* the section's notes name the benchmark MURPH (and not the twelve days)
NotesNameMurph ==
    LET n == TrimSpace(ReplaceBr(section.Notes)) IN
    /\ ContainsFold(n, <<"M", "U", "R", "P", "H">>)
    /\ ~MatchesChristmas(n)

Pacing(p) == IF p = "strava" THEN StravaPacing ELSE GarminPacing

\* a step that invokes Upload on platform p
UploadStep(p) == pc = p /\ uploads' # uploads

\* C22: between any two consecutive Upload invocations to the same platform
\* within one run, the fixed pacing delay elapses (500 ms for Strava, 1 s for
\* Garmin), whatever the outcome of the earlier upload.
C22_PacedUploads ==
    [][\A p \in Platforms :
          (UploadStep(p) /\ \E u \in CliUploads : u.platform = p)
              => slept >= Pacing(p)]_vars

\* C23: in a sync run that reaches the upload phase, the history file is
\* written exactly once, after the loops over all workouts and all target
\* platforms have ended; it is never written between two items.
C23_SavedOnceAfterLoops ==
    /\ (pc = "done" /\ CliUploads # {}) => saves = 1
    /\ pc \in {"platforms", "strava", "strava_wait", "garmin", "save"} => saves = 0

\* the duration the three-step rule gives
EffectiveDuration(g, w) ==
    IF w.Duration > 0 THEN w.Duration
    ELSE IF w.ResultTime # << >> THEN w.ResultTime[1]
    ELSE g.defaultDuration

\* C24: the effective duration used for the lap and the trackpoint series is
\* the explicit workout duration when it is set; otherwise the result's
\* elapsed time when a result time exists; otherwise the configured default
\* (60 minutes).
C24_EffectiveDuration ==
    lap # << >> =>
        /\ lap[1].TotalTimeSeconds = EffectiveDuration(generator, workout)
        /\ duration = EffectiveDuration(generator, workout)

\* C25: within one sync run, no two workouts in the batch handed to the
\* orchestrator share the same ID, for any sequence of pages returned by the
\* source (including pages that repeat an element already returned).
C25_UniqueIDs ==
    (fpc = "done" /\ ferr = "nil") =>
        LET workouts == GetWorkoutHistory(allActivities) IN
        \A j, k \in 1..Len(workouts) : workouts[j].ID = workouts[k].ID => j = k

\* the lines of the description that show exercise k
ExerciseLines(k) ==
    {n \in 1..Len(lines[1]) : lines[1][n].kind = "exercise" /\ lines[1][n].ex = k}

\* C26: every non-placeholder exercise of a workout appears exactly once in
\* the formatted description: under its section when its section index is a
\* valid position in the sections list, and outside any section (as
\* unassigned) when the index is out of range.
C26_EveryExerciseOnce ==
    lines # << >> =>
        \A k \in 1..Len(described.Exercises) :
            LET ex == described.Exercises[k]
                valid == ex.SectionIndex >= 0 /\ ex.SectionIndex < Len(described.Sections)
            IN  ~isPlaceholderExercise(ex.Name) =>
                   /\ Cardinality(ExerciseLines(k)) = 1
                   /\ \A n \in ExerciseLines(k) :
                         lines[1][n].section = IF valid THEN ex.SectionIndex ELSE -1

\* C27: within one batch, two different workouts (different IDs) are never
\* written to the same file path, so no encoded file is overwritten by
\* another workout of the batch and each returned path holds the encoding of
\* the workout it was returned for.
C27_OwnPath ==
    /\ \A j, k \in 1..Len(files) :
          files[j].for # files[k].for => files[j].path # files[k].path
    /\ \A j \in 1..Len(files) :
          [path |-> files[j].path, content |-> files[j].for] \in disk

\* the records a finished CLI run / a finished request h appended to the
\* history it loaded
CliRecorded(w) == Range(Appended(history, loaded, w))
ReqRecorded(h, w) == Range(Appended(req[h].history, req[h].loaded, w))

\* C28: when the scheduler's CLI sync and a webhook sync have both
\* finished, every SyncStatus either of them recorded is in the history file.
C28_NoLostUpdate ==
    \A h \in Requests :
       (pc = "done" /\ req[h].pc = "done") =>
          \A w \in Workouts :
             CliRecorded(w) \cup ReqRecorded(h, w) \subseteq Range(file[w])

\* C29: GET /status answers no_sync_yet, or a last_sync and a result of
\* one and the same finished sync run.
C29_StatusOfOneRun ==
    reply # << >> =>
       \/ reply[1].status = "no_sync_yet"
       \/ /\ reply[1].result # << >>
          /\ reply[1].result[1].of = reply[1].last_sync

\* the number of SyncStatus records request r's batch appended
RecordsAppended(r) ==
    Cardinality(UNION { { <<w, k>> : k \in { j \in DOMAIN r.history[w] : j > Len(r.loaded[w]) } } :
                        w \in Workouts })

\* C30: when a webhook batch leaves its upload loop, uploaded + skipped +
\* errors is the number of records the batch appended, and success is false
\* exactly when errors > 0.
C30_CountersMatchRecords ==
    [][\A h \in Requests :
          (req[h].pc = "loop" /\ req'[h].pc = "ret") =>
             LET r == req'[h] IN
             /\ r.result.Uploaded + r.result.Skipped + r.result.Errors = RecordsAppended(r)
             /\ (r.result.Success = FALSE) <=> (r.result.Errors > 0)]_vars

C30_Witness ==
    \E h \in Requests :
       /\ req[h].pc = "ret"
       /\ req[h].result.Uploaded = 1 /\ req[h].result.Errors = 1
       /\ RecordsAppended(req[h]) = 2
       /\ ~req[h].result.Success

=============================================================================
